---- MODULE Spec2Model ----
(***************************************************************************)
(* Verification model of the Panduza serial-port / power-supply servers:   *)
(*   - the Supervisor (RunnersService::start, Services::start) that starts *)
(*     one Runner task per configured device and restarts failed ones;     *)
(*   - the power-supply Runner (mqtt_runner.rs) bridging MQTT command      *)
(*     topics to a PowerSupplyDriver;                                      *)
(*   - the PowerSupplyDriver implementations (emulator, kd3005p);          *)
(*   - the serial-port Factory (registrations, instanciate_driver, scan);  *)
(*   - one driver handle with its locks, its Runner task and the port task *)
(*     of the serial drivers;                                              *)
(*   - the MQTT topics each Runner derives from its device name;           *)
(*   - the StandardDriver of the serial-port server (port resolution);     *)
(*   - the PowerSupplyClient (its state mirror and its callbacks lock).    *)
(* Each subsystem has its own specification (SupSpec, PsuSpec, DrvSpec,    *)
(* FacSpec, HdlSpec, TopSpec, SerSpec, CliSpec) over its own group of      *)
(* variables.                                                              *)
(***************************************************************************)
EXTENDS Integers, Sequences, FiniteSets, TLC

VARIABLES
    \* ---- Supervisor group ------------------------------------------------
    runners_cfg,       \* ServerConfig.runners: device name -> model
    boot,              \* result of RunnersService::start: "pending" | "ok" | "error"
    task,              \* per device name, the state of its live Runner task
    events,            \* runner_tasks_event_receiver of the "runners" monitor
    sup_pc,            \* position of the spawned monitor task (the Supervisor loop)
    sched,             \* the restart being waited for: [task_name, delay_ms] or NoSched
    restart_attempts,  \* HashMap<String, usize> of the Supervisor loop
    svc_pc,            \* position of Services::start
    svc_events,        \* event receiver of the "services" monitor
    tui,               \* state of the TUI task
    fails,             \* history: failures of each device's Runner tasks
    restarts,          \* history: Runner::start calls made by the Supervisor loop
    streak,            \* history: failures handled since the device last ran steadily
    pipe,              \* the senders of `events`: "open" while one is alive, else "closed"
    \* ---- PowerSupplyDriver group ------------------------------------------
    dut,               \* a driver instance (with the device attached to it)
    call,              \* history: the last call made on dut and what it returned
    \* ---- Power-supply Runner group --------------------------------------
    drv,               \* Runner.driver: the driver instance the Runner owns
    runner_pc,         \* position of Runner::task_loop
    requests,          \* requests queued on the AsyncClient, not yet sent by the event loop
    subs,              \* broker: topics the Runner's connection is subscribed to
    retained,          \* broker: retained payload of each state topic
    last,              \* history: the last step of the Runner and its outcome
    confirm,           \* history: the last output-enable command handled, if a valid one
    cmd_lost,          \* history: the broker dropped a command published after startup
    \* ---- Factory group ---------------------------------------------------
    factory,           \* the Factory: its `map` of generators and its `scanner` map
    reg_log,           \* history: the register_driver calls made, in order
    fac_call,          \* history: the last call made on the Factory and its result
    \* ---- Driver-handle group ---------------------------------------------
    hkind,             \* which driver is behind the handle
    hlock,             \* holders of the handle's Mutex (Arc<Mutex<dyn ..Driver>>)
    plock,             \* holders of the driver's inner Mutex (port / device)
    rpc,               \* Runner task: "poll" or "panicked"
    acts,              \* handler calls of the Runner task that have not returned
    inbox,             \* publishes received by the event loop, not yet polled
    bg,                \* the port task spawned by initialize: [pc, data]
    tx,                \* unbounded channel tx_sender -> tx_receiver
    hw_log,            \* history: steps made on the device, in order
    delivered,         \* history: number of commands delivered so far
    rx,                \* history of the port task's reads: [errored, late]
    \* ---- Topic group -----------------------------------------------------
    top_kind,          \* which server runs: "psu" or "serial"
    topics,            \* per started Runner (by name), the topics it derived
    \* ---- Serial driver group ---------------------------------------------
    ser,               \* a StandardDriver, the ports of its host and its calls
    \* ---- Client group ----------------------------------------------------
    cli                \* a PowerSupplyClient: callbacks, their lock and its tasks

supVars == <<runners_cfg, boot, task, events, sup_pc, sched, restart_attempts,
             svc_pc, svc_events, tui, fails, restarts, streak, pipe>>

drvVars == <<dut, call>>

psuVars == <<drv, runner_pc, requests, subs, retained, last, confirm, cmd_lost>>

facVars == <<factory, reg_log, fac_call>>

hdlVars == <<hkind, hlock, plock, rpc, acts, inbox, bg, tx, hw_log, delivered, rx>>

topVars == <<top_kind, topics>>
serVars == <<ser>>
cliVars == <<cli>>

vars == <<supVars, drvVars, psuVars, facVars, hdlVars, topVars, serVars, cliVars>>

-----------------------------------------------------------------------------
(* Bounds of the model *)

\* Failures of one device's Runner tasks that the environment produces.
MaxFails == 7

\* The Runner takes an incoming publish while fewer than MaxQueued requests are
\* queued on its client.
MaxQueued == 1

\* Commands delivered to the Runner of one driver handle.
MaxCmds == 2

\* register_driver calls made on a Factory after Factory::initialize().
MaxRegistrations == 2

\* Runners started by one server.
MaxRunners == 3

\* Serial ports the host enumerates.
MaxPorts == 2

\* Payloads handed to send of one serial driver.
MaxSent == 2

\* State messages delivered to one client, and callbacks registered on it.
MaxMsgs == 2
MaxCallbacks == 2

(* Program constants *)
MAX_RETRIES == 5
BASE_DELAY_MS == 1000

\* Device names of the configuration and the model strings a config may carry.
DeviceNames == {"dev1", "dev2"}
ConfigModels == {"standard", "unknown"}

\* Factory::initialize registers these models.
FactoryMap == {"emulator", "standard"}

NoSched == [task_name |-> "", delay_ms |-> 0]

-----------------------------------------------------------------------------
(* Byte strings: a payload or a Rust String is a sequence of bytes 0..255 *)

\* bytes of the ASCII literals the code uses
ON == <<79, 78>>
OFF == <<79, 70, 70>>
ERROR == <<69, 82, 82, 79, 82>>

IsDigit(b) == b >= 48 /\ b <= 57
IsCont(b) == b >= 128 /\ b <= 191

\* String::from_utf8(payload.to_vec()).is_ok(): the bytes from index i on are
\* well-formed UTF-8 (lead byte followed by its continuation bytes).
RECURSIVE Utf8From(_, _)
Utf8From(s, i) ==
    IF i > Len(s) THEN TRUE
    ELSE LET b == s[i]
             n == IF b < 128 THEN 0
                  ELSE IF b >= 194 /\ b <= 223 THEN 1
                  ELSE IF b >= 224 /\ b <= 239 THEN 2
                  ELSE IF b >= 240 /\ b <= 244 THEN 3
                  ELSE 4
         IN  /\ n < 4
             /\ i + n <= Len(s)
             /\ \A j \in (i + 1)..(i + n) : IsCont(s[j])
             /\ Utf8From(s, i + n + 1)

from_utf8_ok(s) == Utf8From(s, 1)

\* u8::to_ascii_lowercase
Lower(b) == IF b >= 65 /\ b <= 90 THEN b + 32 ELSE b

LowerStr(s) == [i \in 1..Len(s) |-> Lower(s[i])]

-----------------------------------------------------------------------------
(* f32 values: finite decimals m * 10^x (m has no trailing zero), NaN, +-inf *)

NaN == [k |-> "nan", m |-> 0, x |-> 0]
Inf(sign) == [k |-> "inf", m |-> sign, x |-> 0]
None == [k |-> "none", m |-> 0, x |-> 0]

RECURSIVE Fin(_, _)
Fin(m, x) ==
    IF m = 0 THEN [k |-> "fin", m |-> 0, x |-> 0]
    ELSE IF m % 10 = 0 THEN Fin(m \div 10, x + 1)
    ELSE [k |-> "fin", m |-> m, x |-> x]

\* a < b on f32: false whenever an operand is NaN
Lt(a, b) ==
    IF a.k = "nan" \/ b.k = "nan" THEN FALSE
    ELSE IF a.k = "inf" THEN a.m < 0 /\ ~(b.k = "inf" /\ b.m < 0)
    ELSE IF b.k = "inf" THEN b.m > 0
    ELSE IF a.x >= b.x THEN a.m * (10 ^ (a.x - b.x)) < b.m
    ELSE a.m < b.m * (10 ^ (b.x - a.x))

\* a > b on f32
Gt(a, b) == Lt(b, a)

\* a != b on f32: true whenever an operand is NaN
Ne(a, b) == IF a.k = "nan" \/ b.k = "nan" THEN TRUE ELSE a # b

\* index of the first byte at or after i that is no digit
RECURSIVE DigitsEnd(_, _)
DigitsEnd(s, i) ==
    IF i <= Len(s) /\ IsDigit(s[i]) THEN DigitsEnd(s, i + 1) ELSE i

\* value of the digits s[i..j-1]
RECURSIVE DigitsVal(_, _, _)
DigitsVal(s, i, j) ==
    IF j <= i THEN 0 ELSE DigitsVal(s, i, j - 1) * 10 + (s[j - 1] - 48)

\* <f32 as FromStr>::from_str (core::num::dec2flt): optional sign, then
\* digits [. digits] [e|E [sign] digits] with at least one digit, or one of
\* inf / infinity / nan in any letter case; anything else is an error.
parse_f32(s) ==
    LET signed == Len(s) > 0 /\ s[1] \in {43, 45}
        sign == IF Len(s) > 0 /\ s[1] = 45 THEN -1 ELSE 1
        i0 == IF signed THEN 2 ELSE 1
        rest == LowerStr(SubSeq(s, i0, Len(s)))
        i1 == DigitsEnd(s, i0)
        dot == i1 <= Len(s) /\ s[i1] = 46
        f0 == IF dot THEN i1 + 1 ELSE i1
        f1 == DigitsEnd(s, f0)
        ndigits == (i1 - i0) + (f1 - f0)
        hasexp == f1 <= Len(s) /\ s[f1] \in {69, 101}
        esigned == hasexp /\ f1 + 1 <= Len(s) /\ s[f1 + 1] \in {43, 45}
        esign == IF esigned /\ s[f1 + 1] = 45 THEN -1 ELSE 1
        e0 == IF ~hasexp THEN f1 ELSE IF esigned THEN f1 + 2 ELSE f1 + 1
        e1 == DigitsEnd(s, e0)
        exp == esign * DigitsVal(s, e0, e1)
        mant == DigitsVal(s, i0, i1) * (10 ^ (f1 - f0)) + DigitsVal(s, f0, f1)
        err == [ok |-> FALSE, v |-> NaN]
    IN  IF i0 > Len(s) THEN err
        ELSE IF ndigits > 0 /\ e1 = Len(s) + 1 /\ (hasexp => e1 > e0)
             THEN [ok |-> TRUE, v |-> Fin(sign * mant, exp - (f1 - f0))]
        ELSE IF rest = <<110, 97, 110>> THEN [ok |-> TRUE, v |-> NaN]
        ELSE IF rest \in {<<105, 110, 102>>, <<105, 110, 102, 105, 110, 105, 116, 121>>}
             THEN [ok |-> TRUE, v |-> Inf(sign)]
        ELSE err

\* decimal digits of a natural number
RECURSIVE Digits(_)
Digits(n) == IF n < 10 THEN <<48 + n>> ELSE Append(Digits(n \div 10), 48 + (n % 10))

Zeros(n) == [i \in 1..n |-> 48]

\* <f32 as Display>::fmt (f32::to_string): shortest decimal, no exponent
to_string(f) ==
    IF f.k = "nan" THEN <<78, 97, 78>>
    ELSE IF f.k = "inf"
         THEN (IF f.m < 0 THEN <<45>> ELSE <<>>) \o <<105, 110, 102>>
    ELSE LET neg == f.m < 0
             d == Digits(IF neg THEN -f.m ELSE f.m)
             n == -f.x
             body == IF f.x >= 0 THEN d \o Zeros(f.x)
                     ELSE IF Len(d) > n
                          THEN SubSeq(d, 1, Len(d) - n) \o <<46>>
                               \o SubSeq(d, Len(d) - n + 1, Len(d))
                     ELSE <<48, 46>> \o Zeros(n - Len(d)) \o d
         IN  (IF neg THEN <<45>> ELSE <<>>) \o body

-----------------------------------------------------------------------------
(* Factory *)

\* Factory::instanciate_driver: Ok iff a generator is registered for the model.
instanciate_driver(model) == model \in FactoryMap

-----------------------------------------------------------------------------
(* Supervisor: RunnersService::start *)

\* restart_attempts.entry(name).or_insert(0)
EntryOrInsert0(map, name) ==
    [n \in DOMAIN map \cup {name} |-> IF n \in DOMAIN map THEN map[n] ELSE 0]

\* restart_attempts.insert(name, v) / *attempts = v
MapInsert(map, name, v) ==
    [n \in DOMAIN map \cup {name} |-> IF n = name THEN v ELSE map[n]]

\* BASE_DELAY_MS.saturating_mul(2u64.pow(attempts)); the guard
\* attempts < MAX_RETRIES keeps the product far below the u64 range, so the
\* saturation never applies.
DelayMs(attempts) == BASE_DELAY_MS * (2 ^ attempts)

\* A match arm that restarts on panics only.
IsRestartEvent_panic_only(event) ==
    /\ event.kind \in {"TaskPanicOMG"}
    /\ event.task_name \in DOMAIN runners_cfg

\* Whether the event is one the Supervisor loop restarts on.
IsRestartEvent(event) ==
    /\ event.kind \in {"TaskPanicOMG", "TaskStopWithPain"}
    /\ event.task_name \in DOMAIN runners_cfg

\* A loop that gives up only once the counter is above MAX_RETRIES.
OnEvent_gives_up_late(attempts_map, event) ==
    IF IsRestartEvent(event)
    THEN LET map == EntryOrInsert0(attempts_map, event.task_name)
             attempts == map[event.task_name]
         IN  IF attempts > MAX_RETRIES
             THEN [restart_attempts |-> map, sched |-> NoSched, sup_pc |-> "recv"]
             ELSE [restart_attempts |-> MapInsert(map, event.task_name, attempts + 1),
                   sched |-> [task_name |-> event.task_name,
                              delay_ms |-> DelayMs(attempts)],
                   sup_pc |-> "sleep"]
    ELSE [restart_attempts |-> attempts_map, sched |-> NoSched, sup_pc |-> "recv"]

\* A loop that takes the event's counter entry (inserting 0) before it looks
\* at the kind of the event and at the configured devices.
OnEvent_entry_first(attempts_map, event) ==
    LET map == EntryOrInsert0(attempts_map, event.task_name)
        attempts == map[event.task_name]
    IN  IF ~IsRestartEvent(event)
        THEN [restart_attempts |-> map, sched |-> NoSched, sup_pc |-> "recv"]
        ELSE IF attempts >= MAX_RETRIES
        THEN [restart_attempts |-> map, sched |-> NoSched, sup_pc |-> "recv"]
        ELSE [restart_attempts |-> MapInsert(map, event.task_name, attempts + 1),
              sched |-> [task_name |-> event.task_name,
                         delay_ms |-> DelayMs(attempts)],
              sup_pc |-> "sleep"]

\* What the loop does with one received event, from the counters it holds: the
\* counters afterwards, the restart it starts waiting for (NoSched when it
\* restarts nothing) and where the loop is next.
OnEvent(attempts_map, event) ==
    IF IsRestartEvent(event)
    THEN LET map == EntryOrInsert0(attempts_map, event.task_name)
             attempts == map[event.task_name]
         IN  IF attempts >= MAX_RETRIES
             THEN [restart_attempts |-> map, sched |-> NoSched, sup_pc |-> "recv"]
             ELSE [restart_attempts |-> MapInsert(map, event.task_name, attempts + 1),
                   sched |-> [task_name |-> event.task_name,
                              delay_ms |-> DelayMs(attempts)],
                   sup_pc |-> "sleep"]
    ELSE [restart_attempts |-> attempts_map, sched |-> NoSched, sup_pc |-> "recv"]

\* The set of all orders in which the HashMap of devices may be iterated.
IterationOrders(S) ==
    {s \in [1..Cardinality(S) -> S] : \A i, j \in 1..Cardinality(S) : i # j => s[i] # s[j]}

\* Index of the first device in the order whose model has no generator, or
\* Len(order) + 1 when every device can be instantiated.
FirstFailure(order) ==
    LET bad == {i \in 1..Len(order) : ~instanciate_driver(runners_cfg[order[i]])}
    IN  IF bad = {} THEN Len(order) + 1
        ELSE CHOOSE i \in bad : \A j \in bad : i <= j

\* RunnersService::start up to the spawn of the monitor task: start a Runner
\* for each configured device, `?` leaving at the first device that cannot be
\* instantiated; Services::start then enters its event loop (or fails too).
RunnersServiceStart ==
    /\ boot = "pending"
    /\ \E order \in IterationOrders(DOMAIN runners_cfg) :
        LET stop == FirstFailure(order)
            started == {order[i] : i \in 1..(stop - 1)}
        IN  /\ task' = [n \in DeviceNames |->
                          IF n \in started THEN "subscribe" ELSE task[n]]
            /\ IF stop > Len(order)
               THEN /\ boot' = "ok"
                    /\ sup_pc' = "recv"
                    /\ svc_pc' = "loop"
                    /\ tui' = "running"
               ELSE /\ boot' = "error"
                    /\ sup_pc' = "none"
                    /\ svc_pc' = "failed"
                    /\ tui' = "none"
    /\ UNCHANGED <<runners_cfg, events, sched, restart_attempts, svc_events,
                   fails, restarts, streak>>
    /\ UNCHANGED <<pipe, drvVars, psuVars, facVars, hdlVars, topVars, serVars, cliVars>>

\* A loop that handles the oldest event and leaves it in the channel.
SupervisorRecv_peeks ==
    /\ sup_pc = "recv"
    /\ events # <<>>
    /\ LET event == Head(events)
           o == OnEvent(restart_attempts, event)
       IN  /\ events' = events
           /\ restart_attempts' = o.restart_attempts
           /\ sched' = o.sched
           /\ sup_pc' = o.sup_pc
           /\ streak' = IF IsRestartEvent(event)
                         THEN [streak EXCEPT ![event.task_name] = @ + 1]
                         ELSE streak
    /\ UNCHANGED <<runners_cfg, boot, task, svc_pc, svc_events, tui, fails, restarts>>
    /\ UNCHANGED <<pipe, drvVars, psuVars, facVars, hdlVars, topVars, serVars, cliVars>>

\* A loop that handles the newest event of the channel first.
SupervisorRecv_newest ==
    /\ sup_pc = "recv"
    /\ events # <<>>
    /\ LET event == events[Len(events)]
           o == OnEvent(restart_attempts, event)
       IN  /\ events' = SubSeq(events, 1, Len(events) - 1)
           /\ restart_attempts' = o.restart_attempts
           /\ sched' = o.sched
           /\ sup_pc' = o.sup_pc
           /\ streak' = IF IsRestartEvent(event)
                         THEN [streak EXCEPT ![event.task_name] = @ + 1]
                         ELSE streak
    /\ UNCHANGED <<runners_cfg, boot, task, svc_pc, svc_events, tui, fails, restarts>>
    /\ UNCHANGED <<pipe, drvVars, psuVars, facVars, hdlVars, topVars, serVars, cliVars>>

\* One iteration of the monitor loop up to its sleep: receive an event and,
\* for a panic / stop-with-error of a configured device, either give up or
\* compute the delay, count the attempt and start sleeping.
SupervisorRecv ==
    /\ sup_pc = "recv"
    /\ events # <<>>
    /\ LET event == Head(events)
           o == OnEvent(restart_attempts, event)
       IN  /\ events' = Tail(events)
           /\ restart_attempts' = o.restart_attempts
           /\ sched' = o.sched
           /\ sup_pc' = o.sup_pc
           /\ streak' = IF IsRestartEvent(event)
                         THEN [streak EXCEPT ![event.task_name] = @ + 1]
                         ELSE streak
    /\ UNCHANGED <<runners_cfg, boot, task, svc_pc, svc_events, tui, fails, restarts>>
    /\ UNCHANGED <<pipe, drvVars, psuVars, facVars, hdlVars, topVars, serVars, cliVars>>

\* Where the loop goes when recv() returns None: `return Ok(())`.
\* A loop that goes on waiting instead.
OnPipeClosed_continue == "recv"

OnPipeClosed == "returned"

\* recv() returns None: the channel is empty and every sender is dropped.
SupervisorPipeClosed ==
    /\ sup_pc = "recv"
    /\ events = <<>>
    /\ pipe = "closed"
    /\ sup_pc' = OnPipeClosed
    /\ UNCHANGED <<runners_cfg, boot, task, events, sched, restart_attempts,
                   svc_pc, svc_events, tui, fails, restarts, streak, pipe>>
    /\ UNCHANGED <<drvVars, psuVars, facVars, hdlVars, topVars, serVars, cliVars>>

\* The TaskMonitor of the "runners" service and the senders it holds are
\* dropped: no event is sent any more.
MonitorDropped ==
    /\ boot = "ok"
    /\ pipe = "open"
    /\ pipe' = "closed"
    /\ UNCHANGED <<runners_cfg, boot, task, events, sup_pc, sched, restart_attempts,
                   svc_pc, svc_events, tui, fails, restarts, streak>>
    /\ UNCHANGED <<drvVars, psuVars, facVars, hdlVars, topVars, serVars, cliVars>>

\* The rest of the iteration, after the sleep: re-instantiate the driver,
\* start a new Runner, register it with the monitor and reset the counter.
\* Runner::start only spawns the task and always returns Ok; the monitor's
\* handle sender is kept alive by RunnersService, so the send succeeds.
SupervisorRestart ==
    /\ sup_pc = "sleep"
    /\ LET task_name == sched.task_name
       IN  IF instanciate_driver(runners_cfg[task_name])
           THEN /\ task' = [task EXCEPT ![task_name] = "subscribe"]
                /\ restart_attempts' = MapInsert(restart_attempts, task_name, 0)
                /\ restarts' = [restarts EXCEPT ![task_name] = @ + 1]
           ELSE UNCHANGED <<task, restart_attempts, restarts>>
    /\ sup_pc' = "recv"
    /\ sched' = NoSched
    /\ UNCHANGED <<runners_cfg, boot, events, svc_pc, svc_events, tui, fails, streak>>
    /\ UNCHANGED <<pipe, drvVars, psuVars, facVars, hdlVars, topVars, serVars, cliVars>>

-----------------------------------------------------------------------------
(* Serial Runner task (services/runners/runner/mod.rs) as the Supervisor sees it *)

\* task_loop: subscribe_to_all(tx) is queued on the client.
RunnerSubscribe(n) ==
    /\ task[n] = "subscribe"
    /\ task' = [task EXCEPT ![n] = "init"]
    /\ UNCHANGED <<runners_cfg, boot, events, sup_pc, sched, restart_attempts,
                   svc_pc, svc_events, tui, fails, restarts, streak>>
    /\ UNCHANGED <<pipe, drvVars, psuVars, facVars, hdlVars, topVars, serVars, cliVars>>

\* Runner::initialize: driver.initialize(..).expect("Driver init failed").
\* Whether the port opens is the environment's choice; a failure panics the
\* task, and the "runners" monitor reports TaskPanicOMG for it.
RunnerInitialize(n) ==
    /\ task[n] = "init"
    /\ \E ok \in BOOLEAN :
        IF ok
        THEN /\ task' = [task EXCEPT ![n] = "loop"]
             /\ streak' = [streak EXCEPT ![n] = 0]
             /\ UNCHANGED <<events, fails>>
        ELSE /\ fails[n] < MaxFails
             /\ task' = [task EXCEPT ![n] = "panicked"]
             /\ fails' = [fails EXCEPT ![n] = @ + 1]
             /\ events' = IF sup_pc \in {"recv", "sleep"} /\ pipe = "open"
                          THEN Append(events, [kind |-> "TaskPanicOMG", task_name |-> n])
                          ELSE events
             /\ UNCHANGED streak
    /\ UNCHANGED <<runners_cfg, boot, sup_pc, sched, restart_attempts,
                   svc_pc, svc_events, tui, restarts>>
    /\ UNCHANGED <<pipe, drvVars, psuVars, facVars, hdlVars, topVars, serVars, cliVars>>

\* A task_loop whose `while let Ok(..)` is not wrapped in `loop`: the first
\* poll error ends the function.
AfterPollError_returns == "returned"

\* task_loop after event_loop.poll() returned Err: the `while let Ok(..)` is
\* left and the enclosing `loop` starts it again.
AfterPollError == "repoll"

\* task_loop: event_loop.poll() returns Err (the broker connection is down or
\* refused). A task that ended by returning would be reported by the
\* "runners" monitor as TaskStopProperly.
RunnerPollError(n) ==
    /\ task[n] \in {"loop", "repoll"}
    /\ task' = [task EXCEPT ![n] = AfterPollError]
    /\ events' = IF AfterPollError \notin {"loop", "repoll"} /\ sup_pc \in {"recv", "sleep"}
                    /\ pipe = "open"
                 THEN Append(events, [kind |-> "TaskStopProperly", task_name |-> n])
                 ELSE events
    /\ UNCHANGED <<runners_cfg, boot, sup_pc, sched, restart_attempts,
                   svc_pc, svc_events, tui, fails, restarts, streak>>
    /\ UNCHANGED <<pipe, drvVars, psuVars, facVars, hdlVars, topVars, serVars, cliVars>>

-----------------------------------------------------------------------------
(* Services::start event loop *)

\* task_monitor.cancel_all_monitored_tasks() on the "services" monitor: the
\* tasks registered with it are "runners" (the Supervisor loop) and "tui".
\* The Runner tasks are registered with the "runners" monitor, not this one.
CancelAllMonitoredTasks ==
    /\ sup_pc' = IF sup_pc \in {"recv", "sleep"} THEN "cancelled" ELSE sup_pc
    /\ tui' = IF tui = "running" THEN "cancelled" ELSE tui
    /\ sched' = NoSched
    /\ UNCHANGED task

\* select! arm: Ctrl+C.
ServicesCtrlC ==
    /\ svc_pc = "loop"
    /\ CancelAllMonitoredTasks
    /\ svc_pc' = "returned"
    /\ UNCHANGED <<runners_cfg, boot, events, restart_attempts, svc_events,
                   fails, restarts, streak>>
    /\ UNCHANGED <<pipe, drvVars, psuVars, facVars, hdlVars, topVars, serVars, cliVars>>

\* The TUI task ends properly (the operator quits it); the "services" monitor
\* reports TaskStopProperly("tui").
TuiStops ==
    /\ tui = "running"
    /\ tui' = "stopped"
    /\ svc_events' = Append(svc_events, [kind |-> "TaskStopProperly", task_name |-> "tui"])
    /\ UNCHANGED <<runners_cfg, boot, task, events, sup_pc, sched, restart_attempts,
                   svc_pc, fails, restarts, streak>>
    /\ UNCHANGED <<pipe, drvVars, psuVars, facVars, hdlVars, topVars, serVars, cliVars>>

\* select! arm: an event of the "services" monitor.
ServicesRecv ==
    /\ svc_pc = "loop"
    /\ svc_events # <<>>
    /\ LET event == Head(svc_events)
       IN  /\ svc_events' = Tail(svc_events)
           /\ IF event.kind = "TaskStopProperly" /\ event.task_name = "tui"
              THEN /\ CancelAllMonitoredTasks
                   /\ svc_pc' = "returned"
              ELSE UNCHANGED <<sup_pc, tui, sched, task, svc_pc>>
    /\ UNCHANGED <<runners_cfg, boot, events, restart_attempts, fails, restarts, streak>>
    /\ UNCHANGED <<pipe, drvVars, psuVars, facVars, hdlVars, topVars, serVars, cliVars>>

-----------------------------------------------------------------------------

SupInit ==
    /\ runners_cfg \in [DeviceNames -> ConfigModels]
    /\ boot = "pending"
    /\ task = [n \in DeviceNames |-> "none"]
    /\ events = <<>>
    /\ sup_pc = "none"
    /\ sched = NoSched
    /\ restart_attempts = [n \in {} |-> 0]
    /\ svc_pc = "start"
    /\ svc_events = <<>>
    /\ tui = "none"
    /\ fails = [n \in DeviceNames |-> 0]
    /\ restarts = [n \in DeviceNames |-> 0]
    /\ streak = [n \in DeviceNames |-> 0]
    /\ pipe = "open"

-----------------------------------------------------------------------------
(* PowerSupplyDriver implementations: PowerSupplyEmulator and Kd3005pDriver *)

\* Outcome of the exchanges one driver call makes with the device: the number
\* of exchanges that succeed before one fails (3 or more: none fails).
IoOutcomes == 0..3
IoOk == 3

\* the outcomes of a call that makes n exchanges with the device
Io(n) == 0..n

\* PowerSupplyConfig security limits (each an Option<f32>)
Limits(minv, maxv, minc, maxc) ==
    [security_min_voltage |-> minv, security_max_voltage |-> maxv,
     security_min_current |-> minc, security_max_current |-> maxc]

\* PowerSupplyEmulator::new
Emulator_new(cfg) ==
    [kind |-> "emulator", cfg |-> cfg, opened |-> FALSE,
     state_oe |-> FALSE, voltage |-> <<48>>, current |-> <<48>>,
     hw_oe |-> FALSE, hw_voltage |-> Fin(0, 0), hw_current |-> Fin(0, 0)]

\* Kd3005pDriver::new, attached to a device whose registers hold oe, v, c
Kd3005p_new(cfg, oe, v, c) ==
    [kind |-> "kd3005p", cfg |-> cfg, opened |-> FALSE,
     state_oe |-> FALSE, voltage |-> <<48>>, current |-> <<48>>,
     hw_oe |-> oe, hw_voltage |-> v, hw_current |-> c]

\* What a driver call returns: the driver afterwards, Ok / the DriverError
\* variant / Panic (an unwrap or expect inside the driver), and the value.
Ret(d, res, val) == [drv |-> d, res |-> res, val |-> val]

\* initialize
initialize(d, io) ==
    IF d.kind = "emulator" THEN Ret(d, "Ok", <<>>)
    ELSE IF io < 3 THEN Ret(d, "Panic", <<>>)
    ELSE Ret([d EXCEPT !.opened = TRUE], "Ok", <<>>)

\* shutdown
shutdown(d) == Ret(d, "Ok", <<>>)

\* output_enabled
output_enabled(d, io) ==
    IF d.kind = "emulator" THEN Ret(d, "Ok", d.state_oe)
    ELSE IF ~d.opened \/ io < 1 THEN Ret(d, "Panic", FALSE)
    ELSE Ret(d, "Ok", d.hw_oe)

\* enable_output that returns Ok without switching the output on
enable_output_not_applied(d, io) ==
    IF d.kind = "emulator" THEN Ret(d, "Ok", <<>>)
    ELSE IF ~d.opened \/ io < 1 THEN Ret(d, "Panic", <<>>)
    ELSE Ret(d, "Ok", <<>>)

\* enable_output
enable_output(d, io) ==
    IF d.kind = "emulator" THEN Ret([d EXCEPT !.state_oe = TRUE], "Ok", <<>>)
    ELSE IF ~d.opened \/ io < 1 THEN Ret(d, "Panic", <<>>)
    ELSE Ret([d EXCEPT !.hw_oe = TRUE], "Ok", <<>>)

\* disable_output (Kd3005p: Power(Off), then Save(1))
disable_output(d, io) ==
    IF d.kind = "emulator" THEN Ret([d EXCEPT !.state_oe = FALSE], "Ok", <<>>)
    ELSE IF ~d.opened \/ io < 1 THEN Ret(d, "Panic", <<>>)
    ELSE IF io < 2 THEN Ret([d EXCEPT !.hw_oe = FALSE], "Generic", <<>>)
    ELSE Ret([d EXCEPT !.hw_oe = FALSE], "Ok", <<>>)

\* get_voltage that answers with the current setting
get_voltage_reads_current(d, io) ==
    IF d.kind = "emulator" THEN Ret(d, "Ok", d.current)
    ELSE IF ~d.opened \/ io < 1 THEN Ret(d, "Panic", <<>>)
    ELSE Ret(d, "Ok", to_string(d.hw_current))

\* get_voltage
get_voltage(d, io) ==
    IF d.kind = "emulator" THEN Ret(d, "Ok", d.voltage)
    ELSE IF ~d.opened \/ io < 1 THEN Ret(d, "Panic", <<>>)
    ELSE Ret(d, "Ok", to_string(d.hw_voltage))

\* get_current
get_current(d, io) ==
    IF d.kind = "emulator" THEN Ret(d, "Ok", d.current)
    ELSE IF ~d.opened \/ io < 1 THEN Ret(d, "Panic", <<>>)
    ELSE Ret(d, "Ok", to_string(d.hw_current))

\* the two security checks of a setter: value < min, value > max
BelowMin(v, min) == min.k # "none" /\ Lt(v, min)
AboveMax(v, max) == max.k # "none" /\ Gt(v, max)

\* set_voltage with the minimum check left out
set_voltage_no_min_check(d, voltage, io) ==
    LET p == parse_f32(voltage)
    IN  IF ~p.ok THEN Ret(d, "Generic", <<>>)
        ELSE IF AboveMax(p.v, d.cfg.security_max_voltage)
             THEN Ret(d, "VoltageSecurityLimitExceeded", <<>>)
        ELSE IF d.kind = "emulator"
             THEN Ret([d EXCEPT !.voltage = voltage], "Ok", <<>>)
        ELSE IF ~d.opened THEN Ret(d, "Panic", <<>>)
        ELSE IF io < 1 THEN Ret(d, "Generic", <<>>)
        ELSE IF io < 2 THEN Ret([d EXCEPT !.hw_voltage = p.v], "Generic", <<>>)
        ELSE Ret([d EXCEPT !.hw_voltage = p.v], "Ok", <<>>)

\* set_voltage (Kd3005p: Voltage(v), then Save(1))
set_voltage(d, voltage, io) ==
    LET p == parse_f32(voltage)
    IN  IF ~p.ok THEN Ret(d, "Generic", <<>>)
        ELSE IF BelowMin(p.v, d.cfg.security_min_voltage)
             THEN Ret(d, "VoltageSecurityLimitExceeded", <<>>)
        ELSE IF AboveMax(p.v, d.cfg.security_max_voltage)
             THEN Ret(d, "VoltageSecurityLimitExceeded", <<>>)
        ELSE IF d.kind = "emulator"
             THEN Ret([d EXCEPT !.voltage = voltage], "Ok", <<>>)
        ELSE IF ~d.opened THEN Ret(d, "Panic", <<>>)
        ELSE IF io < 1 THEN Ret(d, "Generic", <<>>)
        ELSE IF io < 2 THEN Ret([d EXCEPT !.hw_voltage = p.v], "Generic", <<>>)
        ELSE Ret([d EXCEPT !.hw_voltage = p.v], "Ok", <<>>)

\* set_current (Kd3005p: Current(v), then Save(1))
set_current(d, current, io) ==
    LET p == parse_f32(current)
    IN  IF ~p.ok THEN Ret(d, "Generic", <<>>)
        ELSE IF BelowMin(p.v, d.cfg.security_min_current)
             THEN Ret(d, "CurrentSecurityLimitExceeded", <<>>)
        ELSE IF AboveMax(p.v, d.cfg.security_max_current)
             THEN Ret(d, "CurrentSecurityLimitExceeded", <<>>)
        ELSE IF d.kind = "emulator"
             THEN Ret([d EXCEPT !.current = current], "Ok", <<>>)
        ELSE IF ~d.opened THEN Ret(d, "Panic", <<>>)
        ELSE IF io < 1 THEN Ret(d, "Generic", <<>>)
        ELSE IF io < 2 THEN Ret([d EXCEPT !.hw_current = p.v], "Generic", <<>>)
        ELSE Ret([d EXCEPT !.hw_current = p.v], "Ok", <<>>)

\* security_min_voltage() .. security_max_current()
security_min_voltage(d) == d.cfg.security_min_voltage
security_max_voltage(d) == d.cfg.security_max_voltage
security_min_current(d) == d.cfg.security_min_current
security_max_current(d) == d.cfg.security_max_current

\* The voltage / current setting the driver holds, as an f32.
StoredVoltage(d) ==
    IF d.kind = "emulator" THEN parse_f32(d.voltage).v ELSE d.hw_voltage
StoredCurrent(d) ==
    IF d.kind = "emulator" THEN parse_f32(d.current).v ELSE d.hw_current

-----------------------------------------------------------------------------
(* Inputs: configurations, devices and payloads *)

\* security limits a configuration file may declare
PsuConfigs ==
    { Limits(None, None, None, None),
      Limits(Fin(0, 0), Fin(30, 0), Fin(0, 0), Fin(3, 0)),
      Limits(Fin(5, 0), Fin(30, 0), Fin(1, 0), Fin(3, 0)),
      Limits(Fin(5, 0), Fin(3, 0), None, None) }

\* driver instances as the factory builds them; the registers of a real
\* device hold whatever was saved in it before
Drivers ==
    {Emulator_new(cfg) : cfg \in PsuConfigs}
    \cup {Kd3005p_new(cfg, FALSE, Fin(0, 0), Fin(0, 0)) : cfg \in PsuConfigs}
    \cup {Kd3005p_new(cfg, TRUE, Fin(31, 0), Fin(5, 0)) : cfg \in PsuConfigs}

\* "5", "5.0", "40", "2", "abc", "NaN", "inf", "", and a non-UTF-8 byte
SettingPayloads ==
    { <<53>>, <<53, 46, 48>>, <<52, 48>>, <<50>>, <<97, 98, 99>>,
      <<78, 97, 78>>, <<105, 110, 102>>, <<>>, <<255>> }

-----------------------------------------------------------------------------
(* The driver on its own: any sequence of calls after initialize *)

\* op, arg, res, val: the last call; prev_op, prev_arg: the call before it,
\* when that one was a set_voltage that returned Ok
NoCall == [op |-> "none", arg |-> <<>>, res |-> "Ok", val |-> <<>>,
           prev_op |-> "none", prev_arg |-> <<>>]

Remembered ==
    call.res = "Ok" /\ call.op = "set_voltage"

Called(op, arg, r) ==
    /\ dut' = r.drv
    /\ call' = [op |-> op, arg |-> arg, res |-> r.res, val |-> r.val,
                prev_op |-> IF Remembered THEN call.op ELSE "none",
                prev_arg |-> IF Remembered THEN call.arg ELSE <<>>]
    /\ UNCHANGED <<supVars, psuVars, facVars, hdlVars, topVars, serVars, cliVars>>

DrvInitialize ==
    /\ call.op = "none"
    /\ \E io \in IoOutcomes : Called("initialize", <<>>, initialize(dut, io))

\* initialize has returned Ok and the instance is in use
Initialized == call.op # "none" /\ (call.op = "initialize" => call.res = "Ok")

DrvOutputEnabled ==
    /\ Initialized
    /\ \E io \in IoOutcomes : Called("output_enabled", <<>>, output_enabled(dut, io))

DrvEnableOutput ==
    /\ Initialized
    /\ \E io \in IoOutcomes : Called("enable_output", <<>>, enable_output(dut, io))

DrvDisableOutput ==
    /\ Initialized
    /\ \E io \in IoOutcomes : Called("disable_output", <<>>, disable_output(dut, io))

DrvGetVoltage ==
    /\ Initialized
    /\ \E io \in IoOutcomes : Called("get_voltage", <<>>, get_voltage(dut, io))

DrvGetCurrent ==
    /\ Initialized
    /\ \E io \in IoOutcomes : Called("get_current", <<>>, get_current(dut, io))

DrvSetVoltage ==
    /\ Initialized
    /\ \E s \in SettingPayloads \ {<<255>>}, io \in IoOutcomes :
        Called("set_voltage", s, set_voltage(dut, s, io))

DrvSetCurrent ==
    /\ Initialized
    /\ \E s \in SettingPayloads \ {<<255>>}, io \in IoOutcomes :
        Called("set_current", s, set_current(dut, s, io))

\* shutdown() on an initialized instance; the instance stays in the caller's
\* hands and can be called again.
DrvShutdown ==
    /\ Initialized
    /\ Called("shutdown", <<>>, shutdown(dut))

DrvInit ==
    /\ dut \in Drivers
    /\ call = NoCall

DrvNext ==
    \/ DrvInitialize
    \/ DrvOutputEnabled
    \/ DrvEnableOutput
    \/ DrvDisableOutput
    \/ DrvGetVoltage
    \/ DrvGetCurrent
    \/ DrvSetVoltage
    \/ DrvSetCurrent
    \/ DrvShutdown

-----------------------------------------------------------------------------
(* Power-supply Runner (server/src/mqtt_runner.rs) *)

\* topic suffixes under power-supply/{name}/
TopicOe == "control/oe"
TopicOeCmd == "control/oe/cmd"
TopicVoltage == "control/voltage"
TopicVoltageCmd == "control/voltage/cmd"
TopicCurrent == "control/current"
TopicCurrentCmd == "control/current/cmd"
TopicVoltageRefresh == "measure/voltage/refresh_freq"
TopicCurrentRefresh == "measure/current/refresh_freq"

\* the topics task_loop subscribes to, in its order
CmdTopics ==
    <<TopicOeCmd, TopicVoltageCmd, TopicCurrentCmd, TopicVoltageRefresh, TopicCurrentRefresh>>

CmdTopicSet == {CmdTopics[i] : i \in 1..Len(CmdTopics)}

StateTopics == {TopicOe, TopicVoltage, TopicCurrent}

\* client.subscribe(topic, QoS::AtMostOnce)
Sub(topic) == [type |-> "subscribe", topic |-> topic, payload |-> <<>>, retain |-> FALSE]

\* client.publish(topic, QoS::AtLeastOnce, true, payload)
Pub(topic, payload) == [type |-> "publish", topic |-> topic, payload |-> payload, retain |-> TRUE]

\* Bytes::from(if oe_value { "ON" } else { "OFF" })
OePayload(oe_value) == IF oe_value THEN ON ELSE OFF

\* What a step of the Runner leaves: the driver, the publishes it queued,
\* whether the task panicked, and the driver operations it called.
Out(d, pubs, panic, ops) == [drv |-> d, pubs |-> pubs, panic |-> panic, ops |-> ops]

\* the adjustment of a read-back value to the security limits
AdjustToLimits(value, min, max) ==
    LET low == IF min.k # "none" /\ Lt(value, min) THEN min ELSE value
    IN  IF max.k # "none" /\ Gt(value, max) THEN max ELSE low

\* Runner::initialize, one read-back setting against its limits: whether the
\* setter is called, and the text that is published
startup_adjust(read, min, max) ==
    LET p == parse_f32(read)
        adjusted == AdjustToLimits(p.v, min, max)
    IN  IF p.ok /\ Ne(adjusted, p.v)
        THEN [set |-> TRUE, text |-> to_string(adjusted)]
        ELSE [set |-> FALSE, text |-> read]

StartupPanic(d) == Out(d, <<>>, TRUE, <<"initialize">>)

\* Runner::initialize, the end: the three retained publishes (r: what the
\* current setter returned, if it was called)
initialize_publish(r, oe_value, voltage, current) ==
    IF r.res = "Panic" THEN StartupPanic(r.drv)
    ELSE Out(r.drv,
             <<Pub(TopicOe, OePayload(oe_value)), Pub(TopicVoltage, voltage),
               Pub(TopicCurrent, current)>>,
             FALSE, <<"initialize">>)

\* Runner::initialize, the current re-applied if it was adjusted
initialize_set_current(d, oe_value, voltage, a, io) ==
    initialize_publish(IF a.set THEN set_current(d, a.text, io[6]) ELSE Ret(d, "Ok", <<>>),
                       oe_value, voltage, a.text)

\* Runner::initialize, the current read back (c) and checked
initialize_current(c, oe_value, voltage, io) ==
    IF c.res # "Ok" THEN StartupPanic(c.drv)
    ELSE initialize_set_current(c.drv, oe_value, voltage,
            startup_adjust(c.val, security_min_current(c.drv), security_max_current(c.drv)),
            io)

\* Runner::initialize, after the voltage setter (r: what it returned, if called)
initialize_get_current(r, oe_value, voltage, io) ==
    IF r.res = "Panic" THEN StartupPanic(r.drv)
    ELSE initialize_current(get_current(r.drv, io[5]), oe_value, voltage, io)

\* Runner::initialize, the voltage re-applied if it was adjusted
initialize_set_voltage(d, oe_value, a, io) ==
    initialize_get_current(
        IF a.set THEN set_voltage(d, a.text, io[4]) ELSE Ret(d, "Ok", <<>>),
        oe_value, a.text, io)

\* Runner::initialize, the voltage read back (v) and checked
initialize_voltage(v, oe_value, io) ==
    IF v.res # "Ok" THEN StartupPanic(v.drv)
    ELSE initialize_set_voltage(v.drv, oe_value,
            startup_adjust(v.val, security_min_voltage(v.drv), security_max_voltage(v.drv)),
            io)

\* Runner::initialize, the output state read back (e)
initialize_oe(e, io) ==
    IF e.res # "Ok" THEN StartupPanic(e.drv)
    ELSE initialize_voltage(get_voltage(e.drv, io[3]), e.val, io)

\* Runner::initialize, after driver.initialize() (r: what it returned)
initialize_driver(r, io) ==
    IF r.res # "Ok" THEN StartupPanic(r.drv)
    ELSE initialize_oe(output_enabled(r.drv, io[2]), io)

\* Runner::initialize; io[i] is the outcome of the i-th driver call
runner_initialize(d, io) == initialize_driver(initialize(d, io[1]), io)

\* handle_output_enable_command, the state read back (r) and published
oe_readback(r, ops) ==
    IF r.res # "Ok" THEN Out(r.drv, <<>>, TRUE, ops)
    ELSE Out(r.drv, <<Pub(TopicOe, OePayload(r.val))>>, FALSE, ops)

\* handle_output_enable_command after the driver call (r: what it returned)
oe_applied(r, op, io2) ==
    IF r.res # "Ok" THEN Out(r.drv, <<>>, TRUE, <<op>>)
    ELSE oe_readback(output_enabled(r.drv, io2), <<op, "output_enabled">>)

\* Runner::handle_output_enable_command
handle_output_enable_command(d, payload, io1, io2) ==
    IF ~from_utf8_ok(payload) THEN Out(d, <<>>, TRUE, <<>>)
    ELSE IF payload = ON THEN oe_applied(enable_output(d, io1), "enable_output", io2)
    ELSE IF payload = OFF THEN oe_applied(disable_output(d, io1), "disable_output", io2)
    ELSE Out(d, <<Pub(TopicOe, ERROR)>>, FALSE, <<>>)

\* handle_voltage_command, the setting read back (r) and published
voltage_readback(r) ==
    IF r.res # "Ok" THEN Out(r.drv, <<>>, TRUE, <<"set_voltage", "get_voltage">>)
    ELSE Out(r.drv, <<Pub(TopicVoltage, r.val)>>, FALSE, <<"set_voltage", "get_voltage">>)

\* handle_voltage_command after set_voltage (r: what it returned)
voltage_applied(r, io2) ==
    IF r.res # "Ok" THEN Out(r.drv, <<>>, TRUE, <<"set_voltage">>)
    ELSE voltage_readback(get_voltage(r.drv, io2))

\* Runner::handle_voltage_command
handle_voltage_command(d, payload, io1, io2) ==
    IF ~from_utf8_ok(payload) THEN Out(d, <<>>, TRUE, <<>>)
    ELSE voltage_applied(set_voltage(d, payload, io1), io2)

\* handle_current_command after set_current (r: what it returned): the
\* command's payload is published
current_applied(r, payload) ==
    IF r.res # "Ok" THEN Out(r.drv, <<>>, TRUE, <<"set_current">>)
    ELSE Out(r.drv, <<Pub(TopicCurrent, payload)>>, FALSE, <<"set_current">>)

\* Runner::handle_current_command
handle_current_command(d, payload, io1) ==
    IF ~from_utf8_ok(payload) THEN Out(d, <<>>, TRUE, <<>>)
    ELSE current_applied(set_current(d, payload, io1), payload)

\* the refresh-frequency branches of handle_incoming_message
handle_refresh_freq(d, payload) ==
    IF ~from_utf8_ok(payload) THEN Out(d, <<>>, TRUE, <<>>)
    ELSE Out(d, <<>>, FALSE, <<>>)

\* Runner::handle_incoming_message
handle_incoming_message(d, topic, payload, io1, io2) ==
    IF topic = TopicOeCmd THEN handle_output_enable_command(d, payload, io1, io2)
    ELSE IF topic = TopicVoltageCmd THEN handle_voltage_command(d, payload, io1, io2)
    ELSE IF topic = TopicCurrentCmd THEN handle_current_command(d, payload, io1)
    ELSE IF topic = TopicVoltageRefresh THEN handle_refresh_freq(d, payload)
    ELSE IF topic = TopicCurrentRefresh THEN handle_refresh_freq(d, payload)
    ELSE Out(d, <<>>, FALSE, <<>>)

NoPayload == [has |-> FALSE, payload |-> <<>>]
Payload(b) == [has |-> TRUE, payload |-> b]

NoStep == [what |-> "none", topic |-> "", payload |-> <<>>, ops |-> <<>>]

\* The Runner task after a step that left o: the driver it holds, the
\* requests it queued on the client, and whether the task goes on.
Stepped(o, what, topic, payload) ==
    /\ drv' = o.drv
    /\ runner_pc' = IF o.panic THEN "panicked" ELSE "poll"
    /\ requests' = requests \o o.pubs
    /\ last' = [what |-> what, topic |-> topic, payload |-> payload, ops |-> o.ops]

\* task_loop: subscribe_to_all queues one subscribe request per command topic
PsuSubscribe ==
    /\ runner_pc = "subscribe"
    /\ requests' = requests \o [i \in 1..Len(CmdTopics) |-> Sub(CmdTopics[i])]
    /\ runner_pc' = "init"
    /\ UNCHANGED <<drv, subs, retained, last, confirm, cmd_lost>>
    /\ UNCHANGED <<supVars, drvVars, facVars, hdlVars, topVars, serVars, cliVars>>

\* task_loop: runner.initialize().await
PsuInitialize ==
    /\ runner_pc = "init"
    /\ \E io1 \in Io(3), io2, io3, io5 \in Io(1), io4, io6 \in Io(2) :
        Stepped(runner_initialize(drv, <<io1, io2, io3, io4, io5, io6>>), "startup", "", <<>>)
    /\ UNCHANGED <<subs, retained, confirm, cmd_lost>>
    /\ UNCHANGED <<supVars, drvVars, facVars, hdlVars, topVars, serVars, cliVars>>

\* event_loop.poll() sends the oldest queued request to the broker: a
\* subscription is registered, a retained publish replaces the topic's
\* retained payload.
PsuPollOutgoing ==
    /\ runner_pc = "poll"
    /\ requests # <<>>
    /\ LET r == Head(requests)
       IN  /\ requests' = Tail(requests)
           /\ subs' = IF r.type = "subscribe" THEN subs \cup {r.topic} ELSE subs
           /\ retained' = IF r.type = "publish" /\ r.retain
                          THEN [retained EXCEPT ![r.topic] = Payload(r.payload)]
                          ELSE retained
    /\ UNCHANGED <<drv, runner_pc, last, confirm, cmd_lost>>
    /\ UNCHANGED <<supVars, drvVars, facVars, hdlVars, topVars, serVars, cliVars>>

\* payloads a client may publish on a command topic
CmdPayloads(topic) ==
    IF topic = TopicOeCmd THEN {ON, OFF, <<111, 110>>, <<>>, <<255>>}
    ELSE IF topic = TopicVoltageCmd
         THEN {<<53>>, <<52, 48>>, <<78, 97, 78>>, <<97, 98, 99>>, <<255>>}
    ELSE IF topic = TopicCurrentCmd THEN {<<50, 46, 48>>, <<57>>, <<97, 98, 99>>, <<255>>}
    ELSE {<<49, 48>>, <<255>>}

\* A client publishes a command on a topic the Runner's connection is
\* subscribed to; the broker routes it, event_loop.poll() yields it and
\* handle_incoming_message handles it.
PsuPollIncoming ==
    /\ runner_pc = "poll"
    /\ Len(requests) < MaxQueued
    /\ \E topic \in subs :
        \E payload \in CmdPayloads(topic) :
            \E io1 \in Io(2), io2 \in Io(1) :
                /\ Stepped(handle_incoming_message(drv, topic, payload, io1, io2),
                           "message", topic, payload)
                /\ confirm' = IF topic # TopicOeCmd THEN confirm
                              ELSE IF payload \in {ON, OFF} THEN Payload(payload)
                              ELSE NoPayload
    /\ UNCHANGED <<subs, retained, cmd_lost>>
    /\ UNCHANGED <<supVars, drvVars, facVars, hdlVars, topVars, serVars, cliVars>>

\* A client publishes a command (QoS 0, not retained) on a topic the
\* Runner's connection is not subscribed to at the broker: the broker drops it.
ClientPublishUnrouted ==
    /\ runner_pc = "poll"
    /\ ~cmd_lost
    /\ \E topic \in CmdTopicSet \ subs : cmd_lost' = TRUE
    /\ UNCHANGED <<drv, runner_pc, requests, subs, retained, last, confirm>>
    /\ UNCHANGED <<supVars, drvVars, facVars, hdlVars, topVars, serVars, cliVars>>

PsuNext ==
    \/ PsuSubscribe
    \/ PsuInitialize
    \/ PsuPollOutgoing
    \/ PsuPollIncoming
    \/ ClientPublishUnrouted

-----------------------------------------------------------------------------
(* Serial-port Factory (src/server/drivers/mod.rs) *)

\* model names a config or a registration may carry
Models == {"emulator", "standard", "custom"}

\* generator functions fn(SerialPortConfig) -> driver handle
Generators == {"PowerSupplyEmulator::new", "StandardDriver::new", "CustomDriver::new"}

\* scanner functions fn() -> Vec<SerialPortConfig>
Scanners == {"StandardDriver::scan", "CustomDriver::scan"}

\* names serialport::available_ports() may report
Ports == {"ttyUSB0"}

SerialPortConfig(model, name) == [model |-> model, endpoint |-> name]

Configs == {SerialPortConfig(m, p) : m \in Models \cup {"unknown"}, p \in Ports}

\* generator(config): the driver a generator builds for a config
Generate(generator, config) == [built_by |-> generator, config |-> config]

\* StandardDriver::scan: one config of model "standard" per available port;
\* a scanner of another driver reports configs of that driver's model.
RunScanner(scanner, ports) ==
    IF scanner = "StandardDriver::scan"
    THEN {SerialPortConfig("standard", p) : p \in ports}
    ELSE {SerialPortConfig("custom", p) : p \in ports}

\* A registration that keeps the generator already registered for the model.
register_driver_first_wins(f, model, generator) ==
    IF model \in DOMAIN f.map THEN f
    ELSE [f EXCEPT !.map = MapInsert(f.map, model, generator)]

\* Factory::register_driver: self.map.insert(model.into(), generator)
register_driver(f, model, generator) ==
    [f EXCEPT !.map = MapInsert(f.map, model, generator)]

\* factory.scanner.insert(model, scanner)
scanner_insert(f, model, scanner) ==
    [f EXCEPT !.scanner = MapInsert(f.scanner, model, scanner)]

\* factory.manifest.insert(model, <Driver>::manifest())
manifest_insert(f, model, manifest) ==
    [f EXCEPT !.manifest = MapInsert(f.manifest, model, manifest)]

\* Factory::initialize
Factory_initialize ==
    LET empty == [map |-> [m \in {} |-> ""], manifest |-> [m \in {} |-> ""],
                  scanner |-> [m \in {} |-> ""]]
        f1 == register_driver(empty, "emulator", "PowerSupplyEmulator::new")
        f2 == manifest_insert(f1, "emulator", "PowerSupplyEmulator::manifest")
        f3 == register_driver(f2, "standard", "StandardDriver::new")
        f4 == manifest_insert(f3, "standard", "StandardDriver::manifest")
    IN  scanner_insert(f4, "standard", "StandardDriver::scan")

\* Factory::instanciate_driver(&self, config)
Factory_instanciate_driver(f, config) ==
    IF config.model \in DOMAIN f.map
    THEN [res |-> "Ok", driver |-> Generate(f.map[config.model], config), error |-> ""]
    ELSE [res |-> "NoDriver", driver |-> Generate("", SerialPortConfig("", "")), error |-> config.model]

\* Factory::scan(&self): the configs of every registered scanner, each stored
\* under a fresh random key.
scan(f, ports) ==
    UNION {RunScanner(f.scanner[m], ports) : m \in DOMAIN f.scanner}

NoFacCall == [op |-> "none", config |-> SerialPortConfig("", ""), before |-> Factory_initialize,
              ret |-> [res |-> "Ok", driver |-> Generate("", SerialPortConfig("", "")), error |-> ""], found |-> {}]

FacRegisterDriver ==
    /\ Len(reg_log) - 2 < MaxRegistrations
    /\ \E model \in Models, generator \in Generators :
        /\ factory' = register_driver(factory, model, generator)
        /\ reg_log' = Append(reg_log, [model |-> model, generator |-> generator])
        /\ fac_call' = [NoFacCall EXCEPT !.op = "register_driver", !.before = factory]
    /\ UNCHANGED <<supVars, drvVars, psuVars, hdlVars, topVars, serVars, cliVars>>

FacRegisterScanner ==
    /\ \E model \in Models, scanner \in Scanners :
        /\ factory' = scanner_insert(factory, model, scanner)
        /\ fac_call' = [NoFacCall EXCEPT !.op = "scanner.insert", !.before = factory]
    /\ UNCHANGED reg_log
    /\ UNCHANGED <<supVars, drvVars, psuVars, hdlVars, topVars, serVars, cliVars>>

FacInstanciate ==
    /\ \E config \in Configs :
        fac_call' = [NoFacCall EXCEPT !.op = "instanciate_driver", !.config = config,
                                       !.before = factory,
                                       !.ret = Factory_instanciate_driver(factory, config)]
    /\ UNCHANGED <<factory, reg_log>>
    /\ UNCHANGED <<supVars, drvVars, psuVars, hdlVars, topVars, serVars, cliVars>>

FacScan ==
    /\ \E ports \in SUBSET Ports :
        fac_call' = [NoFacCall EXCEPT !.op = "scan", !.before = factory,
                                       !.found = scan(factory, ports)]
    /\ UNCHANGED <<factory, reg_log>>
    /\ UNCHANGED <<supVars, drvVars, psuVars, hdlVars, topVars, serVars, cliVars>>

FacInit ==
    /\ factory = Factory_initialize
    /\ reg_log = << [model |-> "emulator", generator |-> "PowerSupplyEmulator::new"],
                    [model |-> "standard", generator |-> "StandardDriver::new"] >>
    /\ fac_call = NoFacCall

FacNext ==
    \/ FacRegisterDriver
    \/ FacRegisterScanner
    \/ FacInstanciate
    \/ FacScan

-----------------------------------------------------------------------------
(* One driver handle and the tasks that use it: the Runner task, which makes *)
(* every call on the handle, and the port task a serial driver spawns.      *)
(* hkind is the driver behind the handle:                                   *)
(*   "psu"      Kd3005pDriver behind the power-supply Runner;               *)
(*   "split"    StandardDriver of src/drivers/standard.rs: a reader task,   *)
(*              and send() writing to the port itself;                      *)
(*   "unified"  StandardDriver of src/server/drivers/standard.rs: one task  *)
(*              reading the port and writing what send() queued.            *)

HandleKinds == {"psu", "split", "unified"}

\* holder of a lock when it is the spawned port task; handler activations of
\* the Runner task are numbered from 1 (its initialize() call)
BgTask == 0

\* command topics the Runner of the handle subscribes to
HdlTopics(kind) == IF kind = "psu" THEN {TopicVoltageCmd, TopicCurrentCmd} ELSE {"tx"}

\* The awaits of one handler of the Runner, in order, from taking the handle
\* lock to dropping its guard.
Steps(kind, topic) ==
    IF topic = "initialize" THEN <<"lock", "initialize", "return">>
    ELSE IF topic = TopicVoltageCmd THEN <<"lock", "set", "save", "sleep", "get", "return">>
    ELSE IF topic = TopicCurrentCmd THEN <<"lock", "set", "save", "return">>
    ELSE IF kind = "split" THEN <<"lock", "port_lock", "write", "return">>
    ELSE <<"lock", "queue", "return">>

\* tokio Mutex: lock().await completes only while nobody holds the mutex.
\* A lock that is handed out whoever holds it.
LockFree_unchecked(lock) == TRUE

LockFree(lock) == lock = {}

\* A guard that owns nothing.
Acquire_not_taken(lock, who) == lock

Acquire(lock, who) == lock \cup {who}

\* The poll loop awaits handle_incoming_message before it polls again.
\* A loop that spawns the handler instead.
HandlerAwaited_spawned == TRUE

HandlerAwaited == acts = <<>>

Entry(a, step) == [id |-> a.id, topic |-> a.topic, during |-> a.during, step |-> step]

NoAct == [id |-> 0, topic |-> "", during |-> FALSE, at |-> 0]

\* The broker delivers a command published on one of the command topics.
Deliver ==
    /\ delivered < MaxCmds
    /\ \E topic \in HdlTopics(hkind) :
        inbox' = Append(inbox, [id |-> delivered + 2, topic |-> topic,
                                during |-> (acts # <<>> \/ inbox # <<>>), at |-> 1])
    /\ delivered' = delivered + 1
    /\ UNCHANGED <<hkind, hlock, plock, rpc, acts, bg, tx, hw_log, rx>>
    /\ UNCHANGED <<supVars, drvVars, psuVars, facVars, topVars, serVars, cliVars>>

\* event_loop.poll() yields the next publish and the Runner calls its handler.
RunnerTake ==
    /\ rpc = "poll"
    /\ HandlerAwaited
    /\ inbox # <<>>
    /\ acts' = Append(acts, Head(inbox))
    /\ inbox' = Tail(inbox)
    /\ UNCHANGED <<hkind, hlock, plock, rpc, bg, tx, hw_log, delivered, rx>>
    /\ UNCHANGED <<supVars, drvVars, psuVars, facVars, topVars, serVars, cliVars>>

\* The handler activation acts[i] runs up to its next await.
HStep(i) ==
    /\ i \in DOMAIN acts
    /\ LET a == acts[i]
           step == Steps(hkind, a.topic)[a.at]
           adv == [acts EXCEPT ![i].at = @ + 1]
           gone == SubSeq(acts, 1, i - 1) \o SubSeq(acts, i + 1, Len(acts))
       IN  \/ /\ step = "lock"
              /\ LockFree(hlock)
              /\ hlock' = Acquire(hlock, a.id)
              /\ acts' = adv
              /\ UNCHANGED <<plock, rpc, bg, tx, hw_log>>
           \/ /\ step \in {"set", "save", "sleep", "get"}
              /\ hw_log' = Append(hw_log, Entry(a, step))
              /\ acts' = adv
              /\ UNCHANGED <<hlock, plock, rpc, bg, tx>>
           \/ /\ step \in {"set", "initialize"}      \* .expect(..) on an Err
              /\ rpc' = "panicked"
              /\ acts' = gone
              /\ hlock' = hlock \ {a.id}
              /\ UNCHANGED <<plock, bg, tx, hw_log>>
           \/ /\ step = "initialize"
              /\ bg' = IF hkind = "psu" THEN bg ELSE [pc |-> "select", data |-> NoAct]
              /\ acts' = adv
              /\ UNCHANGED <<hlock, plock, rpc, tx, hw_log>>
           \/ /\ step = "port_lock"
              /\ LockFree(plock)
              /\ plock' = Acquire(plock, a.id)
              /\ acts' = adv
              /\ UNCHANGED <<hlock, rpc, bg, tx, hw_log>>
           \/ /\ step = "write"     \* send's Err (write_all / flush failed) is logged
              /\ \E ok \in BOOLEAN :
                    hw_log' = Append(hw_log, Entry(a, IF ok THEN "write" ELSE "write_err"))
              /\ plock' = plock \ {a.id}
              /\ acts' = adv
              /\ UNCHANGED <<hlock, rpc, bg, tx>>
           \/ /\ step = "queue"
              /\ tx' = Append(tx, a)
              /\ acts' = adv
              /\ UNCHANGED <<hlock, plock, rpc, bg, hw_log>>
           \/ /\ step = "return"
              /\ hlock' = hlock \ {a.id}
              /\ acts' = gone
              /\ UNCHANGED <<plock, rpc, bg, tx, hw_log>>
    /\ UNCHANGED <<hkind, inbox, delivered, rx>>
    /\ UNCHANGED <<supVars, drvVars, psuVars, facVars, topVars, serVars, cliVars>>

\* Port task: driver.lock().await, then port.read(..) is pending.
BgRead ==
    /\ bg.pc = "select"
    /\ LockFree(plock)
    /\ plock' = Acquire(plock, BgTask)
    /\ bg' = [bg EXCEPT !.pc = "reading"]
    /\ UNCHANGED <<hkind, hlock, rpc, acts, inbox, tx, hw_log, delivered, rx>>
    /\ UNCHANGED <<supVars, drvVars, psuVars, facVars, topVars, serVars, cliVars>>

\* results of port.read(..): bytes, Ok(0) or the 10 ms timeout, an I/O error
ReadResults == {"data", "nothing", "error"}

\* A read loop that leaves (`break`) when the read returns an error.
AfterRead_error_breaks(kind, result) ==
    IF result = "data" THEN "publish"
    ELSE IF result = "error" THEN "ended"
    ELSE IF kind = "split" THEN "sleep"
    ELSE "select"

\* Where the port task goes with the result of its read: bytes are published
\* on the rx topic, an error is logged and followed by sleep(100 ms), and the
\* old reader sleeps 10 ms after an empty read.
AfterRead(kind, result) ==
    IF result = "data" THEN "publish"
    ELSE IF result = "error" THEN "sleep_err"
    ELSE IF kind = "split" THEN "sleep"
    ELSE "select"

\* Port task: the read returns and the port guard is dropped.
BgReadDone ==
    /\ bg.pc = "reading"
    /\ \E result \in ReadResults :
        /\ bg' = [bg EXCEPT !.pc = AfterRead(hkind, result)]
        /\ rx' = IF result = "error" THEN [rx EXCEPT !.errored = TRUE] ELSE rx
    /\ plock' = plock \ {BgTask}
    /\ UNCHANGED <<hkind, hlock, rpc, acts, inbox, tx, hw_log, delivered>>
    /\ UNCHANGED <<supVars, drvVars, psuVars, facVars, topVars, serVars, cliVars>>

\* Port task: client.publish(topic_with_prefix("rx"), data) returns (an Err
\* is logged) and the loop goes round.
BgPublished ==
    /\ bg.pc = "publish"
    /\ bg' = [bg EXCEPT !.pc = "select"]
    /\ rx' = [rx EXCEPT !.late = rx.errored]
    /\ UNCHANGED <<hkind, hlock, plock, rpc, acts, inbox, tx, hw_log, delivered>>
    /\ UNCHANGED <<supVars, drvVars, psuVars, facVars, topVars, serVars, cliVars>>

\* Port task: the sleep after an error or an empty read is over.
BgWake ==
    /\ bg.pc \in {"sleep", "sleep_err"}
    /\ bg' = [bg EXCEPT !.pc = "select"]
    /\ UNCHANGED <<hkind, hlock, plock, rpc, acts, inbox, tx, hw_log, delivered, rx>>
    /\ UNCHANGED <<supVars, drvVars, psuVars, facVars, topVars, serVars, cliVars>>

\* A channel that hands out the newest message first.
recv_newest_first(q) == [data |-> q[Len(q)], rest |-> SubSeq(q, 1, Len(q) - 1)]

\* tx_receiver.recv() on a non-empty channel: the oldest message
recv(q) == [data |-> Head(q), rest |-> Tail(q)]

\* Port task, "unified": tx_receiver.recv() wins the select!; the read branch,
\* if pending, is dropped with its port guard; then driver.lock().await and
\* write_all is pending.
BgRecv ==
    /\ hkind = "unified"
    /\ bg.pc \in {"select", "reading"}
    /\ tx # <<>>
    /\ LockFree(plock \ {BgTask})
    /\ plock' = Acquire(plock \ {BgTask}, BgTask)
    /\ bg' = [pc |-> "writing", data |-> recv(tx).data]
    /\ tx' = recv(tx).rest
    /\ UNCHANGED <<hkind, hlock, rpc, acts, inbox, hw_log, delivered, rx>>
    /\ UNCHANGED <<supVars, drvVars, psuVars, facVars, topVars, serVars, cliVars>>

\* Port task, "unified": write_all and flush are over (an Err of either is
\* logged and the payload is not written again); drop(port).
BgWriteDone ==
    /\ bg.pc = "writing"
    /\ \E ok \in BOOLEAN :
        hw_log' = Append(hw_log, Entry(bg.data, IF ok THEN "write" ELSE "write_err"))
    /\ plock' = plock \ {BgTask}
    /\ bg' = [pc |-> "select", data |-> NoAct]
    /\ UNCHANGED <<hkind, hlock, rpc, acts, inbox, tx, delivered, rx>>
    /\ UNCHANGED <<supVars, drvVars, psuVars, facVars, topVars, serVars, cliVars>>

\* The Runner task is gone, and with it the driver it owned and the driver's
\* tx_sender.
SenderDropped == rpc # "poll"

\* Port task, "unified": tx_receiver.recv() returns None (the channel is
\* empty and its sender is dropped): `break`; the task ends and drops its
\* clone of the port.
BgChannelClosed ==
    /\ hkind = "unified"
    /\ bg.pc \in {"select", "reading"}
    /\ tx = <<>>
    /\ SenderDropped
    /\ bg' = [bg EXCEPT !.pc = "ended"]
    /\ plock' = plock \ {BgTask}
    /\ UNCHANGED <<hkind, hlock, rpc, acts, inbox, tx, hw_log, delivered, rx>>
    /\ UNCHANGED <<supVars, drvVars, psuVars, facVars, topVars, serVars, cliVars>>

\* The Runner task is aborted through the JoinHandle registered with the
\* "runners" TaskMonitor: the task is dropped at the await it is at, with the
\* guards its handler holds.
RunnerCancelled ==
    /\ rpc = "poll"
    /\ rpc' = "cancelled"
    /\ acts' = <<>>
    /\ hlock' = {}
    /\ plock' = plock \cap {BgTask}
    /\ UNCHANGED <<hkind, inbox, bg, tx, hw_log, delivered, rx>>
    /\ UNCHANGED <<supVars, drvVars, psuVars, facVars, topVars, serVars, cliVars>>

HdlInit ==
    /\ hkind \in HandleKinds
    /\ hlock = {}
    /\ plock = {}
    /\ rpc = "poll"
    /\ acts = << [id |-> 1, topic |-> "initialize", during |-> FALSE, at |-> 1] >>
    /\ inbox = <<>>
    /\ bg = [pc |-> "none", data |-> NoAct]
    /\ tx = <<>>
    /\ hw_log = <<>>
    /\ delivered = 0
    /\ rx = [errored |-> FALSE, late |-> FALSE]

HdlIdle == hkind = "psu" /\ HdlInit

HdlNext ==
    \/ Deliver
    \/ RunnerTake
    \/ \E i \in 1..(MaxCmds + 1) : HStep(i)
    \/ BgRead
    \/ BgReadDone
    \/ BgPublished
    \/ BgWake
    \/ BgRecv
    \/ BgWriteDone
    \/ BgChannelClosed
    \/ RunnerCancelled

-----------------------------------------------------------------------------
(* Topics of a Runner *)

\* constants::SERVER_TYPE_NAME (a fixed string)
SERVER_TYPE_NAME == "serial-port"

\* device names a configuration may use as keys of its runners map
RunnerNames ==
    {"dev", "dev2", "dev/state", "dev/control", "dev/control/oe", "dev/", "/", ""}

\* helper::psu_topic: format!("power-supply/{}/{}", name, suffix)
psu_topic(name, suffix) == "power-supply/" \o name \o "/" \o suffix

\* Runner::start of the power-supply server: the topic fields of the Runner
Runner_topics(name) ==
    {psu_topic(name, suffix) :
        suffix \in {"status", "error", TopicOe, TopicOeCmd, TopicVoltage, TopicVoltageCmd,
                    TopicCurrent, TopicCurrentCmd, TopicVoltageRefresh, TopicCurrentRefresh}}

\* Topics::new with an error topic named {prefix}/cmd
Topics_new_error_as_cmd(name) ==
    LET prefix == SERVER_TYPE_NAME \o "/" \o name
    IN  {prefix \o "/status", prefix \o "/cmd", prefix \o "/state/cmd", prefix \o "/state"}

\* Topics::new: status, error, tx, rx
Topics_new(name) ==
    LET prefix == SERVER_TYPE_NAME \o "/" \o name
    IN  {prefix \o "/status", prefix \o "/error", prefix \o "/state/cmd", prefix \o "/state"}

\* A server starts the Runner of one more configured device (the names are
\* the keys of a HashMap, so no name is started twice).
TopRunnerStart ==
    /\ Cardinality(DOMAIN topics) < MaxRunners
    /\ \E name \in RunnerNames \ DOMAIN topics :
        topics' = MapInsert(topics, name,
                            IF top_kind = "psu" THEN Runner_topics(name) ELSE Topics_new(name))
    /\ UNCHANGED top_kind
    /\ UNCHANGED <<supVars, drvVars, psuVars, facVars, hdlVars, serVars, cliVars>>

TopStart == topics = [n \in {} |-> {}]

TopInit == top_kind \in {"psu", "serial"} /\ TopStart

TopIdle == top_kind = "psu" /\ TopStart

TopNext == TopRunnerStart

-----------------------------------------------------------------------------
(* StandardDriver of the serial-port server (server/drivers/standard.rs) *)

\* An Option<T> is the empty set (None) or a singleton (Some(v)).
Some(v) == {v}
Unwrap(o) == CHOOSE v \in o : TRUE

\* UsbEndpointConfig { vid, pid, serial }
UsbEndpointConfig(vid, pid, serial) == [vid |-> vid, pid |-> pid, serial |-> serial]

\* SerialPortEndpointConfig { name, usb, .. }
SerialPortEndpointConfig(name, usb) == [name |-> name, usb |-> usb]

UsbConfigs ==
    {UsbEndpointConfig(vid, pid, serial) :
        vid \in {{}, {1}}, pid \in {{}, {1}, {2}}, serial \in {{}, {"A"}}}

\* config.endpoint of the configurations the model draws from
Endpoints ==
    {{}} \cup {Some(SerialPortEndpointConfig(name, usb)) :
                  name \in {{}, {"COM1"}}, usb \in {{}} \cup {Some(u) : u \in UsbConfigs}}

\* serialport::available_ports(): what one port may be, apart from its name
PortTypes ==
    {[port_type |-> "PciPort", vid |-> 0, pid |-> 0, serial_number |-> {}]} \cup
    {[port_type |-> "UsbPort", vid |-> vid, pid |-> 1, serial_number |-> sn] :
        vid \in {1, 2}, sn \in {{}, {"A"}, {"B"}}}

\* the i-th enumerated port is named ttyUSB<i-1>
PortInfo(i, t) == [port_name |-> "ttyUSB" \o ToString(i - 1), info |-> t]

PortLists ==
    UNION {{[i \in 1..n |-> PortInfo(i, types[i])] : types \in [1..n -> PortTypes]} :
              n \in 0..MaxPorts}

\* A match that lets a port without serial number pass a configured serial.
UsbMatch_serial_optional(usb_config, usb_info) ==
    /\ \A vid \in usb_config.vid : vid = usb_info.vid
    /\ \A pid \in usb_config.pid : pid = usb_info.pid
    /\ \A serial \in usb_config.serial :
           \A usb_serial \in usb_info.serial_number : usb_serial = serial

\* vid_match && pid_match && serial_match: each is map_or(true, ..) on the
\* configured field; the serial number of the port is map_or(false, ..)
UsbMatch(usb_config, usb_info) ==
    /\ \A vid \in usb_config.vid : vid = usb_info.vid
    /\ \A pid \in usb_config.pid : pid = usb_info.pid
    /\ \A serial \in usb_config.serial :
           \E usb_serial \in usb_info.serial_number : usb_serial = serial

\* the `for port_info in available_ports` loop from position i on: the name
\* of the first USB port that matches (break), or None
RECURSIVE matching_port(_, _, _)
matching_port(usb_config, available_ports, i) ==
    IF i > Len(available_ports) THEN {}
    ELSE IF available_ports[i].info.port_type = "UsbPort"
            /\ UsbMatch(usb_config, available_ports[i].info)
         THEN Some(available_ports[i].port_name)
    ELSE matching_port(usb_config, available_ports, i + 1)

Resolved(name) == [ok |-> TRUE, port_name |-> name, error |-> ""]
Unresolved(error) == [ok |-> FALSE, port_name |-> "", error |-> error]

\* initialize, `let port_name = match &self.config.endpoint {..}`; enum_ok:
\* whether serialport::available_ports() returns Ok
port_name(endpoint, available_ports, enum_ok) ==
    IF endpoint = {} THEN Unresolved("No endpoint configuration provided")
    ELSE IF Unwrap(endpoint).name # {} THEN Resolved(Unwrap(Unwrap(endpoint).name))
    ELSE IF Unwrap(endpoint).usb # {}
         THEN IF ~enum_ok THEN Unresolved("available_ports")
              ELSE LET m == matching_port(Unwrap(Unwrap(endpoint).usb), available_ports, 1)
                   IN  IF m = {} THEN Unresolved("No matching USB device found")
                       ELSE Resolved(Unwrap(m))
    ELSE Unresolved("No port name or USB configuration provided")

\* StandardDriver::new
StandardDriver_new(endpoint) ==
    [endpoint |-> endpoint, driver |-> {}, client |-> FALSE, tx_sender |-> FALSE]

NoInit == [op |-> "none", res |-> "Ok", error |-> "", port_name |-> ""]

\* StandardDriver::initialize: the client is stored, the port name resolved,
\* the port opened (`?` on both), then driver and tx_sender are set and the
\* port task is spawned. open_ok: whether SerialPort::open returns Ok.
StandardDriver_initialize(d, available_ports, enum_ok, open_ok) ==
    LET r == port_name(d.endpoint, available_ports, enum_ok)
        stored == [d EXCEPT !.client = TRUE]
    IN  IF ~r.ok
        THEN [drv |-> stored, spawned |-> 0,
              init |-> [op |-> "initialize", res |-> "Err", error |-> r.error, port_name |-> ""]]
        ELSE IF ~open_ok
        THEN [drv |-> stored, spawned |-> 0,
              init |-> [op |-> "initialize", res |-> "Err", error |-> "open",
                        port_name |-> r.port_name]]
        ELSE [drv |-> [stored EXCEPT !.driver = Some(r.port_name), !.tx_sender = TRUE],
              spawned |-> 1,
              init |-> [op |-> "initialize", res |-> "Ok", error |-> "",
                        port_name |-> r.port_name]]

\* StandardDriver::send: queue the bytes for the port task, or refuse
StandardDriver_send(d, tx_queue, bytes) ==
    IF d.tx_sender THEN [res |-> "Ok", tx |-> Append(tx_queue, bytes)]
    ELSE [res |-> "Serial port not initialized", tx |-> tx_queue]

\* Runner::initialize calls driver.initialize once on a new driver.
SerInitialize ==
    /\ ser.init.op = "none"
    /\ \E enum_ok, open_ok \in BOOLEAN :
        LET r == StandardDriver_initialize(ser.drv, ser.ports, enum_ok, open_ok)
        IN  ser' = [ser EXCEPT !.drv = r.drv, !.init = r.init, !.tasks = @ + r.spawned]
    /\ UNCHANGED <<supVars, drvVars, psuVars, facVars, hdlVars, topVars, cliVars>>

\* driver.send(payload) on the driver, whatever initialize returned
SerSend ==
    /\ ser.init.op = "initialize"
    /\ ser.sent < MaxSent
    /\ \E bytes \in {<<65>>, <<66>>} :
        LET r == StandardDriver_send(ser.drv, ser.tx, bytes)
        IN  ser' = [ser EXCEPT !.tx = r.tx, !.sent = @ + 1, !.last_send = r.res]
    /\ UNCHANGED <<supVars, drvVars, psuVars, facVars, hdlVars, topVars, cliVars>>

SerStart(endpoint, ports) ==
    [drv |-> StandardDriver_new(endpoint), ports |-> ports, init |-> NoInit,
     tasks |-> 0, tx |-> <<>>, sent |-> 0, last_send |-> "none"]

SerInit == ser \in {SerStart(e, p) : e \in Endpoints, p \in PortLists}

SerIdle == ser = SerStart({}, <<>>)

SerNext == SerInitialize \/ SerSend

-----------------------------------------------------------------------------
(* PowerSupplyClient (client/src/client.rs) *)

\* str::trim on an ASCII string: the white space at both ends is removed
IsSpace(b) == b \in {9, 10, 11, 12, 13, 32}

RECURSIVE TrimStart(_)
TrimStart(s) == IF s # <<>> /\ IsSpace(Head(s)) THEN TrimStart(Tail(s)) ELSE s

RECURSIVE TrimEnd(_)
TrimEnd(s) ==
    IF s # <<>> /\ IsSpace(s[Len(s)]) THEN TrimEnd(SubSeq(s, 1, Len(s) - 1)) ELSE s

trim(s) == TrimEnd(TrimStart(s))

\* String::from_utf8(payload.to_vec()).unwrap_or_default()
from_utf8_or_default(payload) == IF from_utf8_ok(payload) THEN payload ELSE <<>>

\* MutableData::default(): false, "0.00", "0.00"
MutableData_default ==
    [enabled |-> FALSE, voltage |-> <<48, 46, 48, 48>>, current |-> <<48, 46, 48, 48>>]

\* PowerSupplyClient::handle_incoming_message, the update of mutable_data:
\* enabled = msg.trim().eq_ignore_ascii_case("ON"); voltage / current = the
\* trimmed text
client_update(data, topic, payload) ==
    LET msg == trim(from_utf8_or_default(payload))
    IN  IF topic = TopicOe THEN [data EXCEPT !.enabled = LowerStr(msg) = LowerStr(ON)]
        ELSE IF topic = TopicVoltage THEN [data EXCEPT !.voltage = msg]
        ELSE IF topic = TopicCurrent THEN [data EXCEPT !.current = msg]
        ELSE data

\* what a registered callback does when it is called: print (the add_*_logging
\* helpers) or call one of the callback-management methods of the same client
CallbackBodies == {"log", "add", "remove", "clear", "counts"}

\* the callback maps of DynamicCallbacks as one map id -> [topic, body]; the
\* ids are unique over the three maps (one next_id)
DynamicCallbacks_default == [callbacks |-> [i \in {} |-> 0], next_id |-> 0]

\* DynamicCallbacks::add_oe_callback / add_voltage_callback / add_current_callback
add_callback(dc, topic, body) ==
    [callbacks |-> MapInsert(dc.callbacks, dc.next_id, [topic |-> topic, body |-> body]),
     next_id |-> dc.next_id + 1]

\* DynamicCallbacks::remove_*_callback
remove_callback(dc, id) ==
    [dc EXCEPT !.callbacks = [i \in DOMAIN dc.callbacks \ {id} |-> dc.callbacks[i]]]

\* PowerSupplyClient::clear_all_callbacks, under the lock
clear_all_callbacks(dc) == [dc EXCEPT !.callbacks = [i \in {} |-> 0]]

\* the callback-management call a callback body makes, once it has the
\* callbacks lock; get_callback_counts changes nothing
ManagementCall(dc, id, body) ==
    IF body = "add" THEN add_callback(dc, TopicOe, "log")
    ELSE IF body = "remove" THEN remove_callback(dc, id)
    ELSE IF body = "clear" THEN clear_all_callbacks(dc)
    ELSE dc

\* add_*_callback, remove_*_callback, clear_all_callbacks and
\* get_callback_counts start with self.callbacks.lock().await
NeedsCallbacksLock(body) == body \in {"add", "remove", "clear", "counts"}

\* state messages the broker may deliver to the client
StateMessages ==
    {[topic |-> TopicOe, payload |-> ON], [topic |-> TopicOe, payload |-> ERROR],
     [topic |-> TopicVoltage, payload |-> <<32, 53>>],
     [topic |-> TopicCurrent, payload |-> <<50, 46, 48>>]}

\* The application registers a callback from one of its own tasks.
CliAddCallback ==
    /\ Cardinality(DOMAIN cli.dc.callbacks) < MaxCallbacks
    /\ cli.dc.next_id < MaxCallbacks
    /\ LockFree(cli.lock)
    /\ \E topic \in {TopicOe, TopicVoltage}, body \in CallbackBodies :
        cli' = [cli EXCEPT !.dc = add_callback(cli.dc, topic, body)]
    /\ UNCHANGED <<supVars, drvVars, psuVars, facVars, hdlVars, topVars, serVars>>

\* The broker delivers a state message to the client's connection.
CliDeliver ==
    /\ cli.received < MaxMsgs
    /\ \E m \in StateMessages :
        cli' = [cli EXCEPT !.inbox = Append(@, m), !.received = @ + 1]
    /\ UNCHANGED <<supVars, drvVars, psuVars, facVars, hdlVars, topVars, serVars>>

\* task_loop: poll() yields a publish; handle_incoming_message updates
\* mutable_data (its guard is dropped at the end of the block), then takes
\* the callbacks lock and starts iterating the callbacks of the topic.
CliHandle ==
    /\ cli.pc = "poll"
    /\ cli.inbox # <<>>
    /\ LockFree(cli.lock)
    /\ LET m == Head(cli.inbox)
       IN  cli' = [cli EXCEPT !.inbox = Tail(@),
                              !.data = client_update(@, m.topic, m.payload),
                              !.lock = Acquire(@, "task_loop"),
                              !.todo = {i \in DOMAIN cli.dc.callbacks :
                                          cli.dc.callbacks[i].topic = m.topic},
                              !.pc = "dispatch"]
    /\ UNCHANGED <<supVars, drvVars, psuVars, facVars, hdlVars, topVars, serVars>>

\* the `for callback in callbacks.*_callbacks.values()` loop calls the next
\* callback (in the HashMap's order) and awaits its future
CliCall ==
    /\ cli.pc = "dispatch"
    /\ \E id \in cli.todo :
        cli' = [cli EXCEPT !.todo = @ \ {id}, !.cur = {id}, !.pc = "callback"]
    /\ UNCHANGED <<supVars, drvVars, psuVars, facVars, hdlVars, topVars, serVars>>

\* The awaited callback runs to its end. A body that calls a
\* callback-management method first awaits the callbacks lock.
CliCallbackDone ==
    /\ cli.pc = "callback"
    /\ LET id == Unwrap(cli.cur)
           body == cli.dc.callbacks[id].body
       IN  /\ NeedsCallbacksLock(body) => LockFree(cli.lock)
           /\ cli' = [cli EXCEPT !.dc = ManagementCall(@, id, body),
                                  !.cur = {}, !.pc = "dispatch"]
    /\ UNCHANGED <<supVars, drvVars, psuVars, facVars, hdlVars, topVars, serVars>>

\* the loop is over: the callbacks guard is dropped and the task polls again
CliDispatched ==
    /\ cli.pc = "dispatch"
    /\ cli.todo = {}
    /\ cli' = [cli EXCEPT !.lock = @ \ {"task_loop"}, !.pc = "poll"]
    /\ UNCHANGED <<supVars, drvVars, psuVars, facVars, hdlVars, topVars, serVars>>

\* PowerSupplyClient::new_with_client
CliInit ==
    cli = [data |-> MutableData_default, dc |-> DynamicCallbacks_default, lock |-> {},
           pc |-> "poll", todo |-> {}, cur |-> {}, inbox |-> <<>>, received |-> 0]

CliIdle == CliInit

CliNext ==
    \/ CliAddCallback
    \/ CliDeliver
    \/ CliHandle
    \/ CliCall
    \/ CliCallbackDone
    \/ CliDispatched

-----------------------------------------------------------------------------
(* Specifications *)

PsuStart ==
    /\ runner_pc = "subscribe"
    /\ requests = <<>>
    /\ subs = {}
    /\ retained = [t \in StateTopics |-> NoPayload]
    /\ last = NoStep
    /\ confirm = NoPayload
    /\ cmd_lost = FALSE

PsuIdle == drv = Emulator_new(Limits(None, None, None, None)) /\ PsuStart

PsuInit == drv \in Drivers /\ PsuStart

\* Each specification starts its own group from its initial states and holds
\* the other groups at one fixed value.
SupIdle ==
    /\ runners_cfg = [n \in DeviceNames |-> "standard"]
    /\ boot = "pending"
    /\ task = [n \in DeviceNames |-> "none"]
    /\ events = <<>>
    /\ sup_pc = "none"
    /\ sched = NoSched
    /\ restart_attempts = [n \in {} |-> 0]
    /\ svc_pc = "start"
    /\ svc_events = <<>>
    /\ tui = "none"
    /\ fails = [n \in DeviceNames |-> 0]
    /\ restarts = [n \in DeviceNames |-> 0]
    /\ streak = [n \in DeviceNames |-> 0]
    /\ pipe = "open"

DrvIdle ==
    /\ dut = Emulator_new(Limits(None, None, None, None))
    /\ call = NoCall

Init == SupInit /\ DrvIdle /\ PsuIdle /\ FacInit /\ HdlIdle /\ TopIdle /\ SerIdle /\ CliIdle

InitDrv == SupIdle /\ DrvInit /\ PsuIdle /\ FacInit /\ HdlIdle /\ TopIdle /\ SerIdle /\ CliIdle

InitPsu == SupIdle /\ DrvIdle /\ PsuInit /\ FacInit /\ HdlIdle /\ TopIdle /\ SerIdle /\ CliIdle

InitFac == SupIdle /\ DrvIdle /\ PsuIdle /\ FacInit /\ HdlIdle /\ TopIdle /\ SerIdle /\ CliIdle

InitHdl == SupIdle /\ DrvIdle /\ PsuIdle /\ FacInit /\ HdlInit /\ TopIdle /\ SerIdle /\ CliIdle

SupNext ==
    \/ RunnersServiceStart
    \/ SupervisorRecv
    \/ SupervisorRestart
    \/ SupervisorPipeClosed
    \/ MonitorDropped
    \/ \E n \in DeviceNames : RunnerSubscribe(n)
    \/ \E n \in DeviceNames : RunnerInitialize(n)
    \/ \E n \in DeviceNames : RunnerPollError(n)
    \/ ServicesCtrlC
    \/ TuiStops
    \/ ServicesRecv

SupSpec == Init /\ [][SupNext]_vars

\* The monitor loop is a spawned task: it takes its next step unless cancelled.
LiveSupSpec ==
    /\ SupSpec
    /\ WF_vars(SupervisorRecv)
    /\ WF_vars(SupervisorRestart)
    /\ WF_vars(SupervisorPipeClosed)

DrvSpec == InitDrv /\ [][DrvNext]_vars

PsuSpec == InitPsu /\ [][PsuNext]_vars

FacSpec == InitFac /\ [][FacNext]_vars

HdlSpec == InitHdl /\ [][HdlNext]_vars

\* The runtime keeps scheduling the Runner task and the port task; publish
\* returns once the request is queued on the client; a select! whose recv()
\* branch is ready each time round takes it in the end.
LiveHdlSpec ==
    /\ HdlSpec
    /\ WF_vars(RunnerTake)
    /\ \A i \in 1..(MaxCmds + 1) : WF_vars(HStep(i))
    /\ WF_vars(BgRead)
    /\ WF_vars(BgWake)
    /\ WF_vars(BgPublished)
    /\ WF_vars(BgWriteDone)
    /\ SF_vars(BgRecv)
    /\ SF_vars(BgChannelClosed)

InitTop == SupIdle /\ DrvIdle /\ PsuIdle /\ FacInit /\ HdlIdle /\ TopInit /\ SerIdle /\ CliIdle

TopSpec == InitTop /\ [][TopNext]_vars

InitSer == SupIdle /\ DrvIdle /\ PsuIdle /\ FacInit /\ HdlIdle /\ TopIdle /\ SerInit /\ CliIdle

SerSpec == InitSer /\ [][SerNext]_vars

InitCli == SupIdle /\ DrvIdle /\ PsuIdle /\ FacInit /\ HdlIdle /\ TopIdle /\ SerIdle /\ CliInit

CliSpec == InitCli /\ [][CliNext]_vars

\* The poll loop of task_loop calls event_loop.poll() again and again, so a
\* request queued on the client is sent in the end.
LivePsuSpec == PsuSpec /\ WF_vars(PsuPollOutgoing)

-----------------------------------------------------------------------------
(* Claims about the Supervisor *)

LiveTaskStates == {"subscribe", "init", "loop", "repoll"}

\* C1: a device whose Runner fails right after every start is restarted at
\* most MAX_RETRIES times: a restart is only ever scheduled for one of the
\* first MAX_RETRIES failures of an unbroken run of failures.
C1_RestartsAtMostMaxRetries ==
    sup_pc = "sleep" => streak[sched.task_name] <= MAX_RETRIES

\* C2: within an unbroken run of failures the wait before the i-th restart
\* (i = 0, 1, ...) is BASE_DELAY_MS * 2^i, so the waits double.
C2_BackoffDoubles ==
    sup_pc = "sleep" =>
        sched.delay_ms = BASE_DELAY_MS * (2 ^ (streak[sched.task_name] - 1))

\* C3: once the shutdown signal has been handled (Services::start has
\* returned), no RunnerTask of a configured device is live any more.
C3_ShutdownCancelsEveryRunner ==
    svc_pc = "returned" => \A n \in DeviceNames : task[n] \notin LiveTaskStates

-----------------------------------------------------------------------------
(* Claims about the drivers *)

\* v < min or v > max for the declared bounds (an absent bound is not checked)
OutOfBounds(v, min, max) ==
    \/ min.k # "none" /\ Lt(v, min)
    \/ max.k # "none" /\ Gt(v, max)

\* min <= v <= max for a number v (an absent bound is not checked)
WithinBounds(v, min, max) ==
    /\ v.k # "nan"
    /\ min.k # "none" => ~Lt(v, min)
    /\ max.k # "none" => ~Gt(v, max)

\* The rejecting cases of a setter step: an unparseable payload returns
\* Generic, a value outside the bounds returns the security-limit error, and
\* both leave the driver as it was.
SetterRejects(op, limit_error, min, max) ==
    call'.op = op =>
        LET p == parse_f32(call'.arg)
        IN  /\ ~p.ok => call'.res = "Generic" /\ dut' = dut
            /\ p.ok /\ OutOfBounds(p.v, min, max) =>
                    call'.res = limit_error /\ dut' = dut

\* The accepting case as the claim states it: a value within the bounds
\* returns Ok and is the stored setting afterwards.
SetterAccepts(op, min, max, stored_after) ==
    call'.op = op =>
        LET p == parse_f32(call'.arg)
        IN  p.ok /\ WithinBounds(p.v, min, max) =>
                call'.res = "Ok" /\ stored_after = p.v

\* The accepting case with the device exchange taken into account: the
\* Kd3005p driver returns Generic when writing the value or saving it fails.
SetterAcceptsOrIoError(op, min, max, stored_before, stored_after) ==
    call'.op = op =>
        LET p == parse_f32(call'.arg)
        IN  p.ok /\ WithinBounds(p.v, min, max) =>
                \/ call'.res = "Ok" /\ stored_after = p.v
                \/ /\ dut.kind = "kd3005p"
                   /\ call'.res = "Generic"
                   /\ stored_after \in {stored_before, p.v}

\* C9 as stated: for set_voltage / set_current, a value below min or above
\* max returns the security-limit error and leaves the setting, a value
\* within the bounds returns Ok and becomes the setting, an unparseable
\* payload returns Generic and leaves the setting.
C9_SetterAsStated ==
    [][ /\ SetterRejects("set_voltage", "VoltageSecurityLimitExceeded",
                         security_min_voltage(dut), security_max_voltage(dut))
        /\ SetterRejects("set_current", "CurrentSecurityLimitExceeded",
                         security_min_current(dut), security_max_current(dut))
        /\ SetterAccepts("set_voltage", security_min_voltage(dut),
                         security_max_voltage(dut), StoredVoltage(dut'))
        /\ SetterAccepts("set_current", security_min_current(dut),
                         security_max_current(dut), StoredCurrent(dut')) ]_vars

\* C9 amended: as stated, except that for a value within the bounds the
\* Kd3005p driver returns Generic when the exchange with the device fails
\* (the setting is then the old or the requested value).
C9_SetterChecksBounds ==
    [][ /\ SetterRejects("set_voltage", "VoltageSecurityLimitExceeded",
                         security_min_voltage(dut), security_max_voltage(dut))
        /\ SetterRejects("set_current", "CurrentSecurityLimitExceeded",
                         security_min_current(dut), security_max_current(dut))
        /\ SetterAcceptsOrIoError("set_voltage", security_min_voltage(dut),
                         security_max_voltage(dut), StoredVoltage(dut), StoredVoltage(dut'))
        /\ SetterAcceptsOrIoError("set_current", security_min_current(dut),
                         security_max_current(dut), StoredCurrent(dut), StoredCurrent(dut')) ]_vars

\* C9 witness: a set_voltage below the declared minimum has been rejected
\* and a bound is declared on both sides.
C9_Witness ==
    /\ call.op = "set_voltage"
    /\ call.res = "VoltageSecurityLimitExceeded"
    /\ parse_f32(call.arg).ok
    /\ security_min_voltage(dut).k # "none"
    /\ Lt(parse_f32(call.arg).v, security_min_voltage(dut))

-----------------------------------------------------------------------------
(* Claims about the power-supply Runner *)

\* the Runner has gone past driver initialization
StartupDone == runner_pc \in {"poll", "panicked"}

\* C4 as stated: once driver initialization has run, the broker holds the
\* Runner's subscription to every command topic, and no command published
\* from then on is dropped.
C4_SubscribedBeforeInitialize ==
    /\ StartupDone => CmdTopicSet \subseteq subs
    /\ ~cmd_lost

RECURSIVE LastOePublished(_, _)
\* the payload of the newest control/oe publication: the last one queued in
\* reqs, or else the retained one (held in r)
LastOePublished(reqs, r) ==
    IF reqs = <<>> THEN r
    ELSE IF reqs[Len(reqs)].type = "publish" /\ reqs[Len(reqs)].topic = TopicOe
         THEN Payload(reqs[Len(reqs)].payload)
    ELSE LastOePublished(SubSeq(reqs, 1, Len(reqs) - 1), r)

\* The last output-enable command handled was the valid command c, and the
\* Runner is running (no driver operation failed, no handler panicked).
OeCommanded(c) == runner_pc = "poll" /\ confirm = Payload(c)

Handled(topic) == last.what = "message" /\ last.topic = topic

\* C6 as stated: after an output-enable payload other than ON / OFF has been
\* handled, the Runner is running, no driver operation was called, and ERROR
\* is the newest control/oe publication.
C6_InvalidOeAnswersError ==
    Handled(TopicOeCmd) /\ last.payload \notin {ON, OFF} =>
        /\ runner_pc = "poll"
        /\ last.ops = <<>>
        /\ LastOePublished(requests, retained[TopicOe]) = Payload(ERROR)

\* C7 as stated: the retained payload of control/oe, once there is one, is
\* ON or OFF.
C7_RetainedOeIsOnOrOff ==
    retained[TopicOe].has => retained[TopicOe].payload \in {ON, OFF}

\* a setting payload the driver's setter does not accept
SettingRejected(payload, min, max) ==
    \/ ~from_utf8_ok(payload)
    \/ ~parse_f32(payload).ok
    \/ OutOfBounds(parse_f32(payload).v, min, max)

\* C8 as stated: after a voltage or current command with a non-numeric or
\* out-of-bounds payload has been handled, the Runner is running.
C8_RejectedSettingKeepsRunner ==
    /\ Handled(TopicVoltageCmd)
         /\ SettingRejected(last.payload, security_min_voltage(drv), security_max_voltage(drv))
       => runner_pc = "poll"
    /\ Handled(TopicCurrentCmd)
         /\ SettingRejected(last.payload, security_min_current(drv), security_max_current(drv))
       => runner_pc = "poll"

\* the retained payload of a state topic is a number within the bounds and
\* is the setting the driver holds
PublishedSetting(topic, min, max, stored) ==
    /\ retained[topic].has
    /\ parse_f32(retained[topic].payload).ok
    /\ WithinBounds(parse_f32(retained[topic].payload).v, min, max)
    /\ parse_f32(retained[topic].payload).v = stored

\* C10 as stated: when startup has finished and its publishes have reached
\* the broker (no command handled yet), the retained control/voltage and
\* control/current are within the security bounds and equal the settings
\* the driver holds.
C10_StartupPublishesStoredSettings ==
    last.what = "startup" /\ runner_pc = "poll" /\ requests = <<>> =>
        /\ PublishedSetting(TopicVoltage, security_min_voltage(drv),
                            security_max_voltage(drv), StoredVoltage(drv))
        /\ PublishedSetting(TopicCurrent, security_min_current(drv),
                            security_max_current(drv), StoredCurrent(drv))

RECURSIVE LastPublished(_, _, _)
\* the payload of the newest publication on a state topic: the last one
\* queued in reqs, or else the retained one (held in r)
LastPublished(reqs, topic, r) ==
    IF reqs = <<>> THEN r
    ELSE IF reqs[Len(reqs)].type = "publish" /\ reqs[Len(reqs)].topic = topic
         THEN Payload(reqs[Len(reqs)].payload)
    ELSE LastPublished(SubSeq(reqs, 1, Len(reqs) - 1), topic, r)

\* C11 as stated: after a voltage or current command has been applied (the
\* Runner is running), the getter was called after the setter and the newest
\* publication on the state topic is what the getter returns.
C11_SettingPublishedFromReadback ==
    /\ Handled(TopicVoltageCmd) /\ runner_pc = "poll" =>
        /\ last.ops = <<"set_voltage", "get_voltage">>
        /\ LastPublished(requests, TopicVoltage, retained[TopicVoltage])
             = Payload(get_voltage(drv, IoOk).val)
    /\ Handled(TopicCurrentCmd) /\ runner_pc = "poll" =>
        /\ last.ops = <<"set_current", "get_current">>
        /\ LastPublished(requests, TopicCurrent, retained[TopicCurrent])
             = Payload(get_current(drv, IoOk).val)

\* C15 as stated: once RunnersService::start is over, a Runner has been started
\* for every configured device whose model has a registered constructor,
\* whatever the models of the other devices are.
C15_UnknownModelStopsOnlyThatDevice ==
    boot # "pending" =>
        \A n \in DeviceNames :
            instanciate_driver(runners_cfg[n]) => task[n] # "none"

-----------------------------------------------------------------------------
(* Claims about the driver life cycle *)

Mutators == {"set_voltage", "set_current", "enable_output", "disable_output"}

\* C20 as stated: once shutdown() has returned on a driver instance, a setter
\* or enable/disable call made on it next is refused (returns an error) and
\* changes neither the driver's state nor the hardware.
C20_ShutDownRefusesCalls ==
    [][(call.op = "shutdown" /\ call.res = "Ok" /\ call'.op \in Mutators)
          => (call'.res # "Ok" /\ dut' = dut)]_vars

-----------------------------------------------------------------------------
(* Claims about the Supervisor's event handling *)

\* C18: whatever the counters of the Supervisor loop are and whatever count a
\* device has reached, a TaskPanicOMG event for the device gets the same
\* counter update, the same delay and the same restart as a TaskStopWithPain
\* event for it.
C18_PanicHandledAsErrorStop ==
    \A n \in DeviceNames : \A a \in 0..(MAX_RETRIES + 1) :
        LET map == MapInsert(restart_attempts, n, a)
        IN  /\ OnEvent(map, [kind |-> "TaskPanicOMG", task_name |-> n])
                 = OnEvent(map, [kind |-> "TaskStopWithPain", task_name |-> n])
            /\ OnEvent(restart_attempts, [kind |-> "TaskPanicOMG", task_name |-> n])
                 = OnEvent(restart_attempts, [kind |-> "TaskStopWithPain", task_name |-> n])

\* C18 witness: the loop has handled a panic of a device and waits to restart it.
C18_Witness ==
    /\ sup_pc = "sleep"
    /\ sched.task_name \in DeviceNames
    /\ sched.delay_ms = BASE_DELAY_MS
    /\ restart_attempts[sched.task_name] = 1

\* The loop sees the closed channel: recv() has nothing left to return.
SeesPipeClosed == sup_pc = "recv" /\ events = <<>> /\ pipe = "closed"

\* C19: once the event channel is closed the Supervisor loop ends (it returns,
\* unless it is cancelled first); the step in which it finds the channel
\* closed starts no Runner, and a returned loop never starts one.
C19_ClosedChannelEndsLoop ==
    /\ (pipe = "closed") ~> (sup_pc \notin {"recv", "sleep"})
    /\ [][SeesPipeClosed => (restarts' = restarts /\ sched' = NoSched /\
                             sup_pc' \in {"recv", "returned", "cancelled"})]_vars
    /\ [][sup_pc = "returned" => (sup_pc' = "returned" /\ restarts' = restarts)]_vars

\* C19 witness: the loop has returned on a closed channel after at least one
\* restart, while a Runner task is alive.
C19_Witness ==
    /\ sup_pc = "returned"
    /\ pipe = "closed"
    /\ \E n \in DeviceNames : restarts[n] > 0 /\ task[n] \in LiveTaskStates

-----------------------------------------------------------------------------
(* Claims about the Factory *)

\* positions in reg_log of the registrations made under the model
RegisteredAt(model) == {i \in 1..Len(reg_log) : reg_log[i].model = model}

\* the generator of the most recent registration under the model
LastRegistered(model) ==
    reg_log[CHOOSE i \in RegisteredAt(model) : \A j \in RegisteredAt(model) : j <= i].generator

\* C16: instanciate_driver(config) returns NoDriver carrying config.model
\* exactly when no generator was ever registered under config.model;
\* otherwise it returns the driver built from the config by the generator
\* registered last under that model; the Factory is the same after the call.
C16_InstanciateLastWriteWins ==
    fac_call.op = "instanciate_driver" =>
        LET model == fac_call.config.model
        IN  /\ (fac_call.ret.res = "NoDriver") <=> (RegisteredAt(model) = {})
            /\ fac_call.ret.res = "NoDriver" =>
                   fac_call.ret.error = model /\ fac_call.ret.driver = Generate("", SerialPortConfig("", ""))
            /\ fac_call.ret.res # "NoDriver" =>
                   /\ fac_call.ret.res = "Ok"
                   /\ fac_call.ret.driver = Generate(LastRegistered(model), fac_call.config)
            /\ factory = fac_call.before

\* C16 witness: a model registered twice with different generators has been
\* instantiated.
C16_Witness ==
    /\ fac_call.op = "instanciate_driver"
    /\ fac_call.ret.res = "Ok"
    /\ \E i, j \in RegisteredAt(fac_call.config.model) :
           i < j /\ reg_log[i].generator # reg_log[j].generator

\* C17 as stated: every config that scan() returns has a model for which a
\* generator is registered.
C17_ScannedModelsAreRegistered ==
    fac_call.op = "scan" =>
        \A config \in fac_call.found : config.model \in DOMAIN factory.map

-----------------------------------------------------------------------------
(* Claims about the driver handle and its locks *)

\* the step a handler activation is about to make
NextStep(a) == Steps(hkind, a.topic)[a.at]

\* handler activations whose driver operation is under way: past the
\* lock().await on the handle and not yet returned
OpsExecuting == {acts[i].id : i \in {j \in DOMAIN acts : acts[j].at > 1}}

\* tasks with a read or a write pending on the physical port
PortOps ==
    (IF bg.pc \in {"reading", "writing"} THEN {BgTask} ELSE {})
        \cup {acts[i].id : i \in {j \in DOMAIN acts : NextStep(acts[j]) = "write"}}

\* C12: at any instant at most one driver operation (initialize, a setter with
\* its read-back, a byte send) is under way on the handle, and the one that is
\* holds the handle's lock alone.
C12_OneOperationPerHandle ==
    /\ Cardinality(OpsExecuting) <= 1
    /\ \A id \in OpsExecuting : hlock = {id}

\* C12 witness: an operation is under way on the handle, after earlier steps
\* on the device, while another command has already arrived.
C12_Witness ==
    /\ OpsExecuting # {}
    /\ inbox # <<>>
    /\ hw_log # <<>>

\* C13: a handler is started only when the one before it has returned, and
\* the device steps of one command (set, save, settle delay, read-back) are
\* consecutive: no step of another command lies between two of them.
C13_HandlersDoNotInterleave ==
    /\ Len(acts) <= 1
    /\ \A i, j, k \in DOMAIN hw_log :
           (i < j /\ j < k /\ hw_log[i].id = hw_log[k].id) => hw_log[j].id = hw_log[i].id

\* C13 witness: a current command that arrived while a voltage command was
\* being handled (or waiting) was applied after the voltage command's
\* read-back.
C13_Witness ==
    /\ hkind = "psu"
    /\ \E i, j \in DOMAIN hw_log :
        /\ i < j
        /\ hw_log[i].topic = TopicVoltageCmd /\ hw_log[i].step = "get"
        /\ hw_log[j].topic = TopicCurrentCmd /\ hw_log[j].step = "save"
        /\ hw_log[j].during

\* C14 as stated: a task with a read or a write pending on the port holds the
\* handle's lock, and at most one task has one pending.
C14_PortUnderHandleLock ==
    /\ \A t \in PortOps : t \in hlock
    /\ Cardinality(PortOps) <= 1

\* C14, amended: a task with a read or a write pending on the port holds the
\* port's own mutex, alone, so at most one task has one pending; the port
\* task never holds the handle's lock.
C14_PortUnderPortLock ==
    /\ \A t \in PortOps : plock = {t}
    /\ Cardinality(PortOps) <= 1
    /\ BgTask \notin hlock

\* C14 witness: after a first write, the reader task has a read pending on
\* the port while a send() of the Runner waits for the port.
C14_Witness ==
    /\ hkind = "split"
    /\ bg.pc = "reading"
    /\ \E i \in DOMAIN acts : NextStep(acts[i]) = "port_lock"
    /\ \E k \in DOMAIN hw_log : hw_log[k].step = "write"


\* ---------------------------------------------------------------------------
\* C24: every disable_output call succeeds and output_enabled()
\* is false after it, whatever the output state was before.
C24_DisableOutputAsStated ==
    [][call'.op = "disable_output" =>
          /\ call'.res = "Ok"
          /\ output_enabled(dut', IoOk) = Ret(dut', "Ok", FALSE)]_vars

\* the getter that directly follows a successful setter returns a string that
\* parses to the f32 the setter's argument parses to
RoundTrip(setter, getter) ==
    call.op = setter /\ call.res = "Ok" /\ call'.op = getter =>
        /\ dut.kind = "emulator" => call'.res = "Ok"
        /\ call'.res = "Ok" =>
              /\ parse_f32(call'.val).ok
              /\ parse_f32(call'.val).v = parse_f32(call.arg).v

\* C25: a set_voltage(v) that was accepted, followed by get_voltage(), yields
\* a value that parses to the same number as v; likewise set_current and
\* get_current.
C25_SetThenGetRoundTrip ==
    [][/\ RoundTrip("set_voltage", "get_voltage")
       /\ RoundTrip("set_current", "get_current")]_vars

\* set_voltage("5.0") was accepted and the get_voltage() after it returned a
\* string that parses to 5
C25_Witness ==
    /\ call.op = "get_voltage" /\ call.res = "Ok"
    /\ call.prev_op = "set_voltage" /\ call.prev_arg = <<53, 46, 48>>
    /\ parse_f32(call.val).v = Fin(5, 0)

\* the Runner has handled a message on one of the two refresh_freq topics
\* (a step that sends a queued request shortens requests and is not one)
RefreshHandled ==
    /\ runner_pc = "poll"
    /\ last'.what = "message"
    /\ last'.topic \in {TopicVoltageRefresh, TopicCurrentRefresh}
    /\ Len(requests') >= Len(requests)

\* C26: handling a message on measure/voltage/refresh_freq or
\* measure/current/refresh_freq, for any payload, calls no driver operation,
\* publishes nothing, leaves the driver unchanged and leaves the Runner running.
C26_RefreshFreqHasNoEffect ==
    [][RefreshHandled =>
          /\ last'.ops = <<>>
          /\ requests' = requests
          /\ drv' = drv
          /\ runner_pc' = "poll"]_vars

\* the kinds of event the TaskMonitor sends, and task names that are not
\* configured devices
EventKinds == {"TaskPanicOMG", "TaskStopWithPain", "TaskStopProperly"}
OtherTaskNames == {"dev3", ""}

\* events the loop does not act on: a clean stop of any task, and any event of
\* a task that is not a configured device
IgnoredEvents ==
    {[kind |-> "TaskStopProperly", task_name |-> n] :
        n \in DOMAIN runners_cfg \cup OtherTaskNames}
    \cup {[kind |-> k, task_name |-> n] : k \in EventKinds, n \in OtherTaskNames}

\* C28: a TaskStopProperly event, or an event of any kind whose task name is
\* not a configured device, starts no delay and no restart and leaves every
\* attempt counter as it is, whatever the counters are.
C28_IgnoredEventChangesNothing ==
    \A event \in IgnoredEvents :
        /\ OnEvent(restart_attempts, event)
             = [restart_attempts |-> restart_attempts, sched |-> NoSched, sup_pc |-> "recv"]
        /\ \A n \in DeviceNames : \A a \in 0..(MAX_RETRIES + 1) :
             LET map == MapInsert(restart_attempts, n, a)
             IN  OnEvent(map, event)
                   = [restart_attempts |-> map, sched |-> NoSched, sup_pc |-> "recv"]

\* the loop waits for an event after it has restarted one device, holding a
\* counter for that device and none for another, and a clean stop of either
\* changes neither
C28_Witness ==
    /\ sup_pc = "recv"
    /\ \E n, m \in DeviceNames :
        /\ n \in DOMAIN restart_attempts /\ restarts[n] >= 1
        /\ m \notin DOMAIN restart_attempts
        /\ \A x \in {n, m} :
            OnEvent(restart_attempts, [kind |-> "TaskStopProperly", task_name |-> x]).restart_attempts
              = restart_attempts

\* the configuration declares all four bounds, with min <= max
BoundsConfigured(cfg) ==
    /\ \A f \in DOMAIN cfg : cfg[f].k # "none"
    /\ ~Gt(cfg.security_min_voltage, cfg.security_max_voltage)
    /\ ~Gt(cfg.security_min_current, cfg.security_max_current)

\* C29: with bounds min <= max configured, once the Runner's startup has
\* completed the driver's stored voltage stays within [min_voltage,
\* max_voltage] and its stored current within [min_current, max_current],
\* whatever voltage / current commands are received.
C29_StoredSettingsStayWithinBounds ==
    (BoundsConfigured(drv.cfg) /\ runner_pc = "poll") =>
        /\ WithinBounds(StoredVoltage(drv), drv.cfg.security_min_voltage,
                        drv.cfg.security_max_voltage)
        /\ WithinBounds(StoredCurrent(drv), drv.cfg.security_min_current,
                        drv.cfg.security_max_current)

\* C27: after any sequence of register operations the manifest has an entry
\* for exactly the registered models.
C27_ManifestMatchesRegisteredModels ==
    DOMAIN factory.manifest = DOMAIN factory.map

\* C23: the topic sets derived for two Runners with distinct device names
\* (names containing '/' included) are disjoint, and the topic set of a Runner
\* is the one its name gives, whatever Runners were started before it.
C23_TopicSetsDisjoint ==
    /\ \A n, m \in DOMAIN topics : n # m => topics[n] \cap topics[m] = {}
    /\ \A n \in DOMAIN topics :
        topics[n] = IF top_kind = "psu" THEN Runner_topics(n) ELSE Topics_new(n)

\* the Runners "dev", "dev/state" and "dev/control" of one server are started
C23_Witness ==
    DOMAIN topics = {"dev", "dev/state", "dev/control"}


-----------------------------------------------------------------------------
(* Claims about the port task of the serial drivers *)

\* ids of the payloads send has accepted: queued, being written, or attempted
Queued == {tx[k].id : k \in DOMAIN tx}
Attempts(steps) == {k \in DOMAIN hw_log : hw_log[k].step \in steps}
PayloadIds == 2..(MaxCmds + 1)

\* write attempts are made in the order send accepted the payloads, each
\* payload at most once, and what is still queued comes after them in order
WritesInOrder ==
    /\ \A i, j \in Attempts({"write", "write_err"}) : i < j => hw_log[i].id < hw_log[j].id
    /\ \A i, j \in DOMAIN tx : i < j => tx[i].id < tx[j].id
    /\ \A i \in Attempts({"write", "write_err"}) : \A k \in DOMAIN tx : hw_log[i].id < tx[k].id
    /\ bg.pc = "writing" =>
          /\ \A k \in DOMAIN tx : bg.data.id < tx[k].id
          /\ \A i \in Attempts({"write", "write_err"}) : hw_log[i].id < bg.data.id

\* C30 (as stated): on the unified serial driver every payload send accepted
\* is written to the port, exactly once and in the order of acceptance.
C30_EveryPayloadWrittenOnce ==
    /\ [](hkind = "unified" => WritesInOrder)
    /\ \A id \in PayloadIds :
          (hkind = "unified" /\ id \in Queued)
              ~> (\E k \in Attempts({"write"}) : hw_log[k].id = id)

\* C30 (amended): every payload send accepted is handed to write_all exactly
\* once, in the order of acceptance; a payload whose write or flush fails is
\* not written again.
C30_EveryPayloadAttemptedOnce ==
    /\ [](hkind = "unified" => WritesInOrder)
    /\ \A id \in PayloadIds :
          (hkind = "unified" /\ id \in Queued)
              ~> (\E k \in Attempts({"write", "write_err"}) : hw_log[k].id = id)

\* two payloads were accepted, the second while the first was still queued,
\* and both have been written
C30_Witness ==
    /\ hkind = "unified"
    /\ tx = <<>> /\ bg.pc = "select"
    /\ Len(hw_log) = 2
    /\ hw_log[1].id = 2 /\ hw_log[1].step = "write"
    /\ hw_log[2].id = 3 /\ hw_log[2].step = "write"


\* C22: an I/O error returned by a read on the port never ends the read loop
\* (the port task ends only when its tx channel is closed), after the error
\* the task sleeps and then reads again, and bytes read later are published
\* on the rx topic.
C22_ReadErrorKeepsLoopAlive ==
    /\ [](bg.pc = "ended" => hkind = "unified" /\ SenderDropped /\ tx = <<>>)
    /\ [][bg.pc = "reading" /\ bg'.pc \in {"sleep_err", "publish"} =>
             /\ bg'.pc = "sleep_err" => rx'.errored
             /\ BgTask \notin plock']_vars
    /\ (bg.pc = "sleep_err") ~> (bg.pc \in {"reading", "ended"})
    /\ [][bg.pc = "publish" /\ bg'.pc # "publish" =>
             bg'.pc = "select" /\ rx'.late = rx.errored]_vars

\* a read returned an error, and bytes read after it have been published
C22_Witness ==
    /\ rx.errored /\ rx.late
    /\ bg.pc = "select"
    /\ rpc = "poll"

\* C21: once the Runner task is cancelled or has panicked, the port task its
\* driver spawned in initialize ends and gives up the port.
C21_PortTaskEndsWithRunner ==
    (rpc # "poll") ~> (bg.pc \in {"none", "ended"} /\ BgTask \notin plock)


-----------------------------------------------------------------------------
(* Further claims about the Supervisor *)

\* the five delays BASE_DELAY_MS * 2^0 .. BASE_DELAY_MS * 2^4
BackoffDelays == {1000, 2000, 4000, 8000, 16000}

\* C37: each per-name attempt counter is in 0..MAX_RETRIES and every delay the
\* Supervisor waits is one of 1000, 2000, 4000, 8000, 16000 ms; this holds of
\* the counters the loop has, and handling a failure event keeps it whatever
\* count in 0..MAX_RETRIES the device has reached.
C37_CountersAndDelaysInRange ==
    /\ \A n \in DOMAIN restart_attempts : restart_attempts[n] \in 0..MAX_RETRIES
    /\ sup_pc = "sleep" => sched.delay_ms \in BackoffDelays
    /\ \A n \in DeviceNames : \A a \in 0..MAX_RETRIES : \A k \in EventKinds :
        LET o == OnEvent(MapInsert(restart_attempts, n, a), [kind |-> k, task_name |-> n])
        IN  /\ \A m \in DOMAIN o.restart_attempts : o.restart_attempts[m] \in 0..MAX_RETRIES
            /\ o.sup_pc = "sleep" => o.sched.delay_ms \in BackoffDelays
            /\ o.sup_pc = "sleep" => o.sched.delay_ms = BASE_DELAY_MS * (2 ^ a)

\* the loop waits out the delay of a device it has restarted before
C37_Witness ==
    /\ sup_pc = "sleep"
    /\ restarts[sched.task_name] >= 1
    /\ restart_attempts[sched.task_name] = 1
    /\ sched.delay_ms = 1000


\* the Supervisor loop starts a replacement Runner (the step after its sleep)
StartsReplacement == sup_pc = "sleep" /\ restarts' # restarts

\* C36: at most one live RunnerTask per device name: the Supervisor starts a
\* replacement only for a configured name whose previous task has ended, one
\* task per restart, and the configuration it instantiates from never changes.
C36_OneLiveRunnerPerName ==
    /\ [][StartsReplacement =>
             /\ sched.task_name \in DOMAIN runners_cfg
             /\ task[sched.task_name] \notin LiveTaskStates
             /\ restarts' = [restarts EXCEPT ![sched.task_name] = @ + 1]
             /\ \A n \in DeviceNames \ {sched.task_name} : task'[n] = task[n]]_vars
    /\ [][runners_cfg' = runners_cfg]_vars

\* a replacement of one device runs next to the first Runner of the other
C36_Witness ==
    \E n, m \in DeviceNames :
        /\ n # m
        /\ restarts[n] >= 1 /\ task[n] = "loop"
        /\ restarts[m] = 0 /\ task[m] = "loop"


\* a failure event of the device waits in the Supervisor's channel
FailureQueued(n) ==
    \E i \in 1..Len(events) :
        events[i].task_name = n /\ events[i].kind \in {"TaskPanicOMG", "TaskStopWithPain"}

\* the events channel only grew (or stayed) in the step
EventsOnlyAppended ==
    /\ Len(events') >= Len(events)
    /\ SubSeq(events', 1, Len(events)) = events

\* C34: the Supervisor loop handles the events one at a time in arrival
\* order: an event leaves the channel only as its head, taken by the loop
\* while it waits in recv; during a backoff sleep no event is taken and no
\* counter other than the restarted device's changes; a restart is scheduled
\* exactly while the loop sleeps (at most one at a time); and every failure
\* event of a configured device is eventually taken, unless the shutdown of
\* the services cancels the loop first.
C34_EventsHandledOneAtATimeInOrder ==
    /\ [][events' # events =>
             \/ EventsOnlyAppended
             \/ sup_pc = "recv" /\ events # <<>> /\ events' = Tail(events) /\
                <<restart_attempts', sched', sup_pc'>> =
                    LET o == OnEvent(restart_attempts, Head(events))
                    IN  <<o.restart_attempts, o.sched, o.sup_pc>>]_vars
    /\ [][sup_pc = "sleep" =>
             /\ EventsOnlyAppended
             /\ \A n \in DOMAIN restart_attempts \ {sched.task_name} :
                    n \in DOMAIN restart_attempts' /\ restart_attempts'[n] = restart_attempts[n]
             /\ \A n \in DeviceNames \ {sched.task_name} : restarts'[n] = restarts[n]]_vars
    /\ []((sup_pc = "sleep") <=> (sched # NoSched))
    /\ \A n \in DeviceNames :
           FailureQueued(n) ~> (~FailureQueued(n) \/ sup_pc = "cancelled")

\* C34 witness: the loop sleeps before the restart of one device while the
\* failure event of the other device waits in the channel.
C34_Witness ==
    /\ sup_pc = "sleep"
    /\ \E n \in DeviceNames \ {sched.task_name} : FailureQueued(n) /\ task[n] = "panicked"


\* C35: a Runner task never ends by returning: a poll error only makes it poll
\* again, a live task stays live or panics, a task in its poll loop stays in
\* it, and the monitor never reports a clean stop or a stop with error for a
\* Runner.
C35_RunnerTaskNeverReturns ==
    /\ [](\A n \in DeviceNames : task[n] \in {"none", "panicked"} \cup LiveTaskStates)
    /\ [][\A n \in DeviceNames :
            /\ task[n] \in LiveTaskStates => task'[n] \in LiveTaskStates \cup {"panicked"}
            /\ task[n] \in {"loop", "repoll"} => task'[n] \in {"loop", "repoll"}]_vars
    /\ [](\A i \in 1..Len(events) : events[i].kind = "TaskPanicOMG")

\* C35 witness: a Runner polls again after a poll error, next to a restarted one
C35_Witness ==
    \E n, m \in DeviceNames :
        /\ task[n] = "repoll" /\ restarts[n] = 0
        /\ task[m] \in LiveTaskStates /\ restarts[m] >= 1


-----------------------------------------------------------------------------
(* Further claims about the Runner and the driver handle *)

\* the step in which driver.send, called by the Runner's handler, returns Err
SendReturnsErr ==
    /\ hkind = "split"
    /\ Len(hw_log') = Len(hw_log) + 1
    /\ hw_log'[Len(hw_log')].step = "write_err"

\* the step in which a power-supply driver operation called by the Runner's
\* handler returns Err
DriverOpReturnsErr ==
    /\ hkind = "psu"
    /\ Len(acts') < Len(acts)
    /\ rpc' # "cancelled"
    /\ \E i \in DOMAIN acts : acts[i].at <= Len(Steps(hkind, acts[i].topic)) /\
          Steps(hkind, acts[i].topic)[acts[i].at] \in {"set", "initialize"} /\ rpc = "poll"

\* C33: an error returned by a driver operation while the Runner handles a
\* command aborts the handling call and ends the Runner task as a failure.
C33_DriverErrorEndsRunnerTask ==
    [][(SendReturnsErr \/ DriverOpReturnsErr) => (rpc' = "panicked" /\ acts' = <<>>)]_vars


-----------------------------------------------------------------------------
(* Further claims about driver initialization *)

\* C31: when the port cannot be resolved or opened, initialize returns an
\* error value instead of panicking and leaves the driver uninitialized.
C31_InitializeFailureIsAnErrorValue ==
    call.op = "initialize" =>
        /\ call.res # "Panic"
        /\ call.res # "Ok" => ~dut.opened


\* the configured endpoint of the serial driver, when there is one
SerEndpoint == Unwrap(ser.drv.endpoint)

\* whether the i-th enumerated port is a USB port whose vid, pid and serial
\* each equal the configured value, an unset field matching anything
PortEquals(usb, i) ==
    LET p == ser.ports[i].info
    IN  /\ p.port_type = "UsbPort"
        /\ usb.vid = {} \/ usb.vid = {p.vid}
        /\ usb.pid = {} \/ usb.pid = {p.pid}
        /\ usb.serial = {} \/ (p.serial_number # {} /\ p.serial_number = usb.serial)

\* positions of the enumerated ports that equal the USB configuration
EqualPorts(usb) == {i \in 1..Len(ser.ports) : PortEquals(usb, i)}

\* C32: initialize uses a configured port name as is, also when a USB match is
\* configured; with no name it uses the first enumerated USB port equal to the
\* USB configuration; it fails if no port matches, if neither name nor USB
\* match is configured, or if the endpoint is absent.
C32_PortChosenByNameThenFirstUsbMatch ==
    ser.init.op = "initialize" =>
        /\ ser.drv.endpoint = {} => ser.init.res = "Err"
        /\ ser.drv.endpoint # {} =>
            /\ SerEndpoint.name # {} =>
                /\ ser.init.port_name = Unwrap(SerEndpoint.name)
                /\ ser.init.res = "Ok" => ser.drv.driver = SerEndpoint.name
            /\ (SerEndpoint.name = {} /\ SerEndpoint.usb = {}) => ser.init.res = "Err"
            /\ (SerEndpoint.name = {} /\ SerEndpoint.usb # {}) =>
                LET eq == EqualPorts(Unwrap(SerEndpoint.usb))
                IN  /\ eq = {} => ser.init.res = "Err"
                    /\ ser.init.port_name # "" =>
                        /\ eq # {}
                        /\ ser.init.port_name =
                              ser.ports[CHOOSE i \in eq : \A j \in eq : i <= j].port_name
                    /\ ser.init.res = "Ok" => ser.drv.driver = {ser.init.port_name}

\* C32 witness: with only a USB match configured (with a serial), initialize
\* opened the second enumerated port because the first one, a USB port
\* without serial number, does not match.
C32_Witness ==
    /\ ser.init.res = "Ok" /\ ser.init.op = "initialize"
    /\ ser.drv.endpoint # {}
    /\ SerEndpoint.name = {} /\ SerEndpoint.usb # {}
    /\ Unwrap(SerEndpoint.usb).serial # {}
    /\ Len(ser.ports) = 2
    /\ ser.ports[1].info.port_type = "UsbPort" /\ ser.ports[1].info.serial_number = {}
    /\ ser.drv.driver = {ser.ports[2].port_name}


-----------------------------------------------------------------------------
(* Claims about the PowerSupplyClient *)

\* the dispatcher awaits a callback that awaits the callbacks lock
CallbackAwaitsLock ==
    /\ cli.pc = "callback"
    /\ NeedsCallbacksLock(cli.dc.callbacks[Unwrap(cli.cur)].body)

\* C39: dispatching a state message to the registered callbacks always
\* completes, also when a callback calls a callback-management method of the
\* same client: the dispatcher never awaits a callback that awaits the
\* callbacks lock while the dispatcher itself holds that lock.
C39_DispatchNeverBlocksOnCallbacksLock ==
    CallbackAwaitsLock => LockFree(cli.lock)

\* the client's mutable_data once it has handled the last message of each
\* state topic (every state publish of the Runner is retained, so the last
\* message of a topic is the broker's retained one)
ClientDataAfterDelivery ==
    LET seen(data, topic) ==
            IF retained[topic].has THEN client_update(data, topic, retained[topic].payload)
            ELSE data
    IN  seen(seen(seen(MutableData_default, TopicOe), TopicVoltage), TopicCurrent)

\* every state message the Runner published has reached the broker and the
\* client, and each state topic has carried one
AllStateDelivered ==
    /\ requests = <<>>
    /\ runner_pc = "poll"
    /\ \A t \in StateTopics : retained[t].has

\* C38: once every state message of the Runner has been delivered, the
\* client's get_oe / get_voltage / get_current return the driver's output
\* state and settings.
C38_ClientMirrorsDriver ==
    AllStateDelivered =>
        /\ ClientDataAfterDelivery.enabled = output_enabled(drv, IoOk).val
        /\ ClientDataAfterDelivery.voltage = get_voltage(drv, IoOk).val
        /\ ClientDataAfterDelivery.current = get_current(drv, IoOk).val

=============================================================================
